---- MODULE Spec2Model ----
(***************************************************************************)
(* q-ledger: session inference and hash-chained ledger (build_ledger.py).  *)
(*                                                                         *)
(* Eight specifications share the module:                                  *)
(*   Spec          build runs of main() against one state file, from       *)
(*                 load_state on, with process crashes between I/O steps;  *)
(*   SpecSessions  infer_sessions() applied to bounded request lists;      *)
(*   SpecLoad      load_rows / load_rows_ndjson, the filter of main() and  *)
(*                 infer_sessions() on bounded input files;                *)
(*   SpecConfig    main() from its configuration on, over configurations,  *)
(*                 salts and scope files of several shapes;                *)
(*   SpecMetrics   main() of metrics.py on bounded ledgers;                *)
(*   SpecMain      main() from its first statement, the argument parser;   *)
(*   SpecOverlap   build runs that call load_state at any moment, with no  *)
(*                 serialization between them;                             *)
(*   SpecPipeline  scope file, loader, filter, infer_sessions and the      *)
(*                 metrics run on the ledger the build produced.           *)
(*                                                                         *)
(* JSON objects are sequences of <<key, value>> pairs in insertion order,  *)
(* as Python dicts are.  sha256 is modelled as a collision-free tag around *)
(* the hashed text.                                                        *)
(***************************************************************************)
EXTENDS Integers, Sequences, FiniteSets, TLC

VARIABLES
    \* ---- files on disk ----
    stateFile,      \* state/ledger-state.json
    outJson,        \* cfg["output"]["json"]
    outYaml,        \* cfg["output"]["yaml"]
    latestJson,     \* cfg["output"]["latest_json"]
    \* ---- locals of each run of main() ----
    pc,             \* position of each run
    state,          \* result of load_state
    ledger_sequence,
    previous_hash,
    ledger,
    ledger_hash,
    \* ---- observers ----
    completed,      \* ledgers of the runs that returned, in order
    recomputed,     \* last digest recomputed by a reader of outJson
    overlapped,     \* runs that were in flight together with another run
    \* ---- infer_sessions ----
    rows,           \* the request list handed to infer_sessions
    site_host,
    gap_minutes,
    gov_exact_paths,
    path_to_category,
    sessions,       \* result of the last call
    chunks,         \* the chunks the last call flushed, in flush order
    prev_sessions,  \* result of the call before, on another order of rows
    phase,          \* "input", "loaded", "fresh", "called", "reordered", "recalled"
    \* ---- ingestion: load_rows / load_rows_ndjson and the filter of main() ----
    input_format,   \* "cloudflare_csv" or "normalized_ndjson"
    input_file,     \* the data rows (CSV) or non-blank lines (NDJSON)
    loaded,         \* the list the loader returned
    ingest_stats,   \* rows_total, rows_loaded, rows_skipped
    \* ---- configuration of main() ----
    cfg,            \* the parsed config file
    environ,        \* value of the fingerprint salt variable
    args,           \* parsed command line
    scope_file,     \* the governance scope file
    \* ---- metrics.py ----
    metrics_pc,     \* position of main() of metrics.py
    ledger_doc,     \* sessions_inferred of the ledger it reads
    metrics_obj,    \* out/metrics.json
    q_metrics       \* out/q-metrics.json

chainVars == <<stateFile, outJson, outYaml, latestJson,
               pc, state, ledger_sequence, previous_hash, ledger, ledger_hash,
               completed, recomputed, overlapped>>
sessVars == <<rows, site_host, gap_minutes, gov_exact_paths, path_to_category,
              sessions, chunks, prev_sessions, phase>>
loadVars == <<input_format, input_file, loaded, ingest_stats>>
cfgVars == <<cfg, environ, args, scope_file>>
metVars == <<metrics_pc, ledger_doc, metrics_obj, q_metrics>>
extVars == <<loadVars, cfgVars, metVars>>
vars == <<chainVars, sessVars, extVars>>

\* ------------------------------------------------------------------------
\* Bounds
\* ------------------------------------------------------------------------
MaxRuns == 2     \* build runs against one state file
MaxRows == 3     \* requests in a list with mixed clients and timestamps
MaxHits == 5     \* requests of one client in one burst
MaxLong == 14    \* requests of one client in one long burst
MaxLines == 2    \* data lines of an input file
MaxUri == 4      \* characters of a path column enumerated in full
MaxSessions == 5 \* sessions of a ledger handed to the metrics engine
MaxCats == 4     \* categories of a session enumerated in full

Runs == 1..MaxRuns

\* ------------------------------------------------------------------------
\* Generic helpers
\* ------------------------------------------------------------------------
Null == <<>>                      \* Python None / JSON null

Min(a, b) == IF a <= b THEN a ELSE b
Max(a, b) == IF a >= b THEN a ELSE b

\* dict helpers over sequences of <<key, value>>
Keys(d) == {d[i][1] : i \in 1..Len(d)}
HasKey(d, k) == k \in Keys(d)
Get(d, k, dflt) ==
    IF HasKey(d, k) THEN d[CHOOSE i \in 1..Len(d) : d[i][1] = k][2] ELSE dflt
\* d[k] = v : replaces in place, or appends a new key at the end
Put(d, k, v) ==
    IF HasKey(d, k)
    THEN [i \in 1..Len(d) |-> IF d[i][1] = k THEN <<k, v>> ELSE d[i]]
    ELSE Append(d, <<k, v>>)
\* del d[k]
Del(d, k) == SelectSeq(d, LAMBDA kv : kv[1] # k)

\* ------------------------------------------------------------------------
\* canonical_json_hash
\* ------------------------------------------------------------------------
\* Every key the documents use, in lexicographic (code point) order.
SortedKeys == <<"attestations_validated", "canonicalization",
                "content_hash_sha256", "export_window", "generated_utc",
                "input_stats", "integrity", "last_ledger_hash",
                "ledger_sequence", "ledger_version", "method",
                "previous_ledger_hash_sha256", "sessions_inferred", "site">>
KeyRank(k) == CHOOSE i \in 1..Len(SortedKeys) : SortedKeys[i] = k

\* keys whose value is itself a JSON object
NestedKeys == {"integrity"}

RECURSIVE InsertByKey(_, _)
InsertByKey(kv, sorted) ==
    IF sorted = <<>> THEN <<kv>>
    ELSE IF KeyRank(kv[1]) <= KeyRank(Head(sorted)[1])
         THEN <<kv>> \o sorted
         ELSE <<Head(sorted)>> \o InsertByKey(kv, Tail(sorted))

RECURSIVE SortKeys(_)
SortKeys(d) ==
    IF d = <<>> THEN <<>> ELSE InsertByKey(Head(d), SortKeys(Tail(d)))

\* json.dumps(obj, sort_keys=True, separators=(",", ":")): keys sorted at
\* every nesting level
json_dumps_unsorted(obj) == obj
json_dumps_sorted(obj) ==
    SortKeys([i \in 1..Len(obj) |->
                IF obj[i][1] \in NestedKeys
                THEN <<obj[i][1], SortKeys(obj[i][2])>>
                ELSE obj[i]])

sha256_hex(s) == <<"sha256", s>>

canonical_json_hash(obj) == sha256_hex(json_dumps_sorted(obj))

\* ------------------------------------------------------------------------
\* Files
\* ------------------------------------------------------------------------
Absent == [exists |-> FALSE, parses |-> FALSE, doc |-> <<>>]
\* open(path, "w") has truncated the file and nothing has been flushed yet
Truncated == [exists |-> TRUE, parses |-> FALSE, doc |-> <<>>]
\* json.dump finished and the file was closed
Written(d) == [exists |-> TRUE, parses |-> TRUE, doc |-> d]

\* ------------------------------------------------------------------------
\* State (temporal chaining)
\* ------------------------------------------------------------------------
\* load_state raises when the file exists and json.load cannot parse it
load_state_raises_no_exists_check(f) == ~f.parses
load_state_raises(f) == f.exists /\ ~f.parses

\* load_state: the dict it returns (when it does not raise)
load_state(f) ==
    IF ~f.exists
    THEN << <<"ledger_sequence", 0>>, <<"last_ledger_hash", Null>> >>
    ELSE LET d1 == IF HasKey(f.doc, "ledger_sequence") THEN f.doc
                   ELSE Put(f.doc, "ledger_sequence", 0)
         IN  IF HasKey(d1, "last_ledger_hash") THEN d1
             ELSE Put(d1, "last_ledger_hash", Null)

\* ledger_sequence = int(state.get("ledger_sequence", 0)) + 1
NextSequenceStale(st) == Get(st, "ledger_sequence", 0)
NextSequence(st) == Get(st, "ledger_sequence", 0) + 1

\* previous_hash = state.get("last_ledger_hash")
PreviousHashNone(st) == Null
PreviousHash(st) == Get(st, "last_ledger_hash", Null)

\* the record main() hands to save_state
NewState(seq, h) == << <<"ledger_sequence", seq>>, <<"last_ledger_hash", h>> >>

\* ------------------------------------------------------------------------
\* main(): one build run, from load_state on
\* ------------------------------------------------------------------------
\* what the earlier stages of the run hand over as sessions_inferred
SessionPayloads == {<<>>, <<"s1">>}

\* a hash left in the state file by a run before the modelled ones
H0 == sha256_hex(<<"earlier">>)

InitialStateFiles ==
    { Absent,
      Written(<<>>),
      Written(<< <<"ledger_sequence", 2>> >>),
      Written(<< <<"last_ledger_hash", H0>> >>),
      Written(NewState(2, H0)) }

\* the ledger dict literal, keys in the order the code inserts them
LedgerDoc(seq, generated, sess, prev) ==
    << <<"ledger_version", "1.1">>,
       <<"ledger_sequence", seq>>,
       <<"site", "site">>,
       <<"generated_utc", generated>>,
       <<"method", "session-inference-1.5">>,
       <<"export_window", "manual">>,
       <<"input_stats", "ingest_stats">>,
       <<"sessions_inferred", sess>>,
       <<"attestations_validated", <<>> >>,
       <<"integrity", << <<"previous_ledger_hash_sha256", prev>>,
                         <<"canonicalization", "json(sort_keys)">> >> >> >>

\* ledger["integrity"]["content_hash_sha256"] = ledger_hash
WithContentHash(doc, h) ==
    Put(doc, "integrity", Put(Get(doc, "integrity", <<>>), "content_hash_sha256", h))

\* the hash main() stores: computed before the hash field is inserted
LedgerHash(doc) == canonical_json_hash(doc)

\* what a ledger document says about its place in the chain
Integrity(doc) == Get(doc, "integrity", <<>>)
ContentHash(doc) == Get(Integrity(doc), "content_hash_sha256", Null)
Summary(r, doc) ==
    [run  |-> r,
     seq  |-> Get(doc, "ledger_sequence", 0),
     prev |-> Get(Integrity(doc), "previous_ledger_hash_sha256", Null),
     hash |-> ContentHash(doc)]

Finished(r) == pc[r] \in {"done", "failed", "crashed"}

\* the run has read the state file and has not ended yet
InFlight(r) ==
    pc[r] \in {"hashed", "json_open", "json_written", "yaml_written",
               "latest_written", "state_open"}

\* serialized execution: runs start in order, one at a time
Serial(r) == /\ \A q \in Runs : q < r => Finished(q)
             /\ \A q \in Runs : q > r => pc[q] = "idle"

Goto(r, l) == pc' = [pc EXCEPT ![r] = l]

\* the process ends (return, exception or kill): its locals are gone
DropLocals(r) ==
    /\ state' = [state EXCEPT ![r] = <<>>]
    /\ ledger_sequence' = [ledger_sequence EXCEPT ![r] = 0]
    /\ previous_hash' = [previous_hash EXCEPT ![r] = Null]
    /\ ledger' = [ledger EXCEPT ![r] = <<>>]
    /\ ledger_hash' = [ledger_hash EXCEPT ![r] = Null]

\* state = load_state(args.state_path); ledger_sequence, previous_hash;
\* ledger = {...}; ledger_hash = canonical_json_hash(ledger); insert the hash
LoadState(r) ==
    /\ pc[r] = "idle"
    /\ IF load_state_raises(stateFile)
       THEN /\ Goto(r, "failed")
            /\ UNCHANGED <<state, ledger_sequence, previous_hash, ledger, ledger_hash>>
       ELSE \E sess \in SessionPayloads :
            LET st   == load_state(stateFile)
                seq  == NextSequence(st)
                prev == PreviousHash(st)
                doc  == LedgerDoc(seq, r, sess, prev)
                h    == LedgerHash(doc)
            IN  /\ state' = [state EXCEPT ![r] = st]
                /\ ledger_sequence' = [ledger_sequence EXCEPT ![r] = seq]
                /\ previous_hash' = [previous_hash EXCEPT ![r] = prev]
                /\ ledger_hash' = [ledger_hash EXCEPT ![r] = h]
                /\ ledger' = [ledger EXCEPT ![r] = WithContentHash(doc, h)]
                /\ Goto(r, "hashed")
    /\ overlapped' = IF \E q \in Runs \ {r} : InFlight(q)
                     THEN overlapped \cup {r} \cup {q \in Runs : InFlight(q)}
                     ELSE overlapped
    /\ UNCHANGED <<stateFile, outJson, outYaml, latestJson,
                   completed, recomputed, sessVars, extVars>>

\* load_state of a run that starts after the run before it has ended
SerialLoadState(r) == Serial(r) /\ LoadState(r)

\* with open(cfg["output"]["json"], "w")
JsonOpen(r) ==
    /\ pc[r] = "hashed"
    /\ outJson' = Truncated
    /\ Goto(r, "json_open")
    /\ UNCHANGED <<stateFile, outYaml, latestJson,
                   state, ledger_sequence, previous_hash, ledger, ledger_hash,
                   completed, recomputed, overlapped, sessVars, extVars>>

\* json.dump(ledger, f) and close
JsonDump(r) ==
    /\ pc[r] = "json_open"
    /\ outJson' = Written(ledger[r])
    /\ Goto(r, "json_written")
    /\ UNCHANGED <<stateFile, outYaml, latestJson,
                   state, ledger_sequence, previous_hash, ledger, ledger_hash,
                   completed, recomputed, overlapped, sessVars, extVars>>

\* the YAML mirror: header lines and yaml.safe_dump(ledger, f)
YamlWrite(r) ==
    /\ pc[r] = "json_written"
    /\ outYaml' = Written(ledger[r])
    /\ Goto(r, "yaml_written")
    /\ UNCHANGED <<stateFile, outJson, latestJson,
                   state, ledger_sequence, previous_hash, ledger, ledger_hash,
                   completed, recomputed, overlapped, sessVars, extVars>>

\* the latest_json copy (cfg["output"]["latest_json"] is configured)
LatestWrite(r) ==
    /\ pc[r] = "yaml_written"
    /\ latestJson' = Written(ledger[r])
    /\ Goto(r, "latest_written")
    /\ UNCHANGED <<stateFile, outJson, outYaml,
                   state, ledger_sequence, previous_hash, ledger, ledger_hash,
                   completed, recomputed, overlapped, sessVars, extVars>>

\* save_state: open(path, "w") truncates the state file in place
SaveStateOpen(r) ==
    /\ pc[r] = "latest_written"
    /\ stateFile' = Truncated
    /\ Goto(r, "state_open")
    /\ UNCHANGED <<outJson, outYaml, latestJson,
                   state, ledger_sequence, previous_hash, ledger, ledger_hash,
                   completed, recomputed, overlapped, sessVars, extVars>>

\* save_state: json.dump(state, f) and close; main() then prints and returns 0
SaveStateDump(r) ==
    /\ pc[r] = "state_open"
    /\ stateFile' = Written(NewState(ledger_sequence[r], ledger_hash[r]))
    /\ completed' = Append(completed, Summary(r, ledger[r]))
    /\ Goto(r, "done")
    /\ DropLocals(r)
    /\ UNCHANGED <<outJson, outYaml, latestJson, recomputed, overlapped,
                   sessVars, extVars>>

\* the process is killed between two steps
Crash(r) ==
    /\ pc[r] \notin {"idle", "done", "failed", "crashed"}
    /\ Goto(r, "crashed")
    /\ DropLocals(r)
    /\ UNCHANGED <<stateFile, outJson, outYaml, latestJson,
                   completed, recomputed, overlapped, sessVars, extVars>>

\* ------------------------------------------------------------------------
\* A reader of the published ledger
\* ------------------------------------------------------------------------
Reverse(d) == [i \in 1..Len(d) |-> d[Len(d) + 1 - i]]
Swap(d, i, j) == [k \in 1..Len(d) |-> IF k = i THEN d[j] ELSE IF k = j THEN d[i] ELSE d[k]]

\* key orders a parser or re-serializer may give the same object: the written
\* order, its reverse, and every exchange of two neighbouring keys
Reorderings(d) ==
    {d, Reverse(d)} \cup {Swap(d, i, i + 1) : i \in 1..(Len(d) - 1)}

\* every order of a small object
AllOrders(d) == {[i \in 1..Len(d) |-> d[p[i]]] : p \in Permutations(1..Len(d))}

\* the orders in which a reader may hold the document d
ReaderOrders(d) ==
    {Put(top, "integrity", integ) :
        top \in Reorderings(d), integ \in {Integrity(d), Reverse(Integrity(d))}}
    \cup {Put(d, "integrity", integ) : integ \in AllOrders(Integrity(d))}

\* del doc["integrity"]["content_hash_sha256"]
WithoutContentHash(doc) ==
    Put(doc, "integrity", Del(Integrity(doc), "content_hash_sha256"))

\* between two runs the reader loads outJson, drops
\* integrity.content_hash_sha256 and hashes the rest with canonical_json_hash
Recompute ==
    /\ \A r \in Runs : pc[r] = "idle" \/ Finished(r)
    /\ outJson.parses
    /\ \E doc \in ReaderOrders(outJson.doc) :
         recomputed' = [stored    |-> ContentHash(doc),
                        digest    |-> canonical_json_hash(WithoutContentHash(doc)),
                        reordered |-> doc # outJson.doc]
    /\ UNCHANGED <<stateFile, outJson, outYaml, latestJson,
                   pc, state, ledger_sequence, previous_hash, ledger, ledger_hash,
                   completed, overlapped, sessVars, extVars>>

\* ------------------------------------------------------------------------
\* Specification of the build runs
\* ------------------------------------------------------------------------
NoStats == [rows_total |-> 0, rows_loaded |-> 0, rows_skipped |-> 0]

NoLoad ==
    /\ input_format = "cloudflare_csv"
    /\ input_file = <<>>
    /\ loaded = <<>>
    /\ ingest_stats = NoStats

\* a complete configuration, the salt set, no scope file
DefaultConfig ==
    /\ cfg = << <<"site", "https://example.com/">>,
                <<"input", << <<"columns", "columns">>, <<"csv_path", "in.csv">> >> >>,
                <<"output", << <<"json", "out/q-ledger.json">>,
                               <<"yaml", "out/q-ledger.yml">>,
                               <<"latest_json", "out/latest.json">> >> >> >>
    /\ environ = <<"test-salt">>
    /\ args = [input_path |-> ""]
    /\ scope_file = [exists |-> FALSE, parses |-> FALSE,
                     doc |-> [t |-> "null", v |-> <<>>, s |-> <<>>]]

\* metrics.py not run
NoMetrics ==
    /\ metrics_pc = "idle"
    /\ ledger_doc = <<>>
    /\ metrics_obj = <<>>
    /\ q_metrics = <<>>

NoExt == NoLoad /\ DefaultConfig /\ NoMetrics

NoSessions ==
    /\ rows = <<>>
    /\ site_host = ""
    /\ gap_minutes = 30
    /\ gov_exact_paths = {}
    /\ path_to_category = <<>>
    /\ sessions = <<>>
    /\ chunks = <<>>
    /\ prev_sessions = <<>>
    /\ phase = "fresh"

Init ==
    /\ stateFile \in InitialStateFiles
    /\ outJson = Absent
    /\ outYaml = Absent
    /\ latestJson = Absent
    /\ pc = [r \in Runs |-> "idle"]
    /\ state = [r \in Runs |-> <<>>]
    /\ ledger_sequence = [r \in Runs |-> 0]
    /\ previous_hash = [r \in Runs |-> Null]
    /\ ledger = [r \in Runs |-> <<>>]
    /\ ledger_hash = [r \in Runs |-> Null]
    /\ completed = <<>>
    /\ recomputed = [stored |-> Null, digest |-> Null, reordered |-> FALSE]
    /\ overlapped = {}
    /\ NoSessions
    /\ NoExt

Next ==
    \/ \E r \in Runs : SerialLoadState(r)
    \/ \E r \in Runs : JsonOpen(r)
    \/ \E r \in Runs : JsonDump(r)
    \/ \E r \in Runs : YamlWrite(r)
    \/ \E r \in Runs : LatestWrite(r)
    \/ \E r \in Runs : SaveStateOpen(r)
    \/ \E r \in Runs : SaveStateDump(r)
    \/ \E r \in Runs : Crash(r)
    \/ Recompute

Spec == Init /\ [][Next]_vars

\* ------------------------------------------------------------------------
\* Timestamps
\* ------------------------------------------------------------------------
\* A datetime is [t, us, off]: wall-clock seconds since 2026-02-17T00:00:00,
\* the microsecond field in units of 500000, and the UTC offset in minutes.
\* A raw timestamp is what a log carries: [kind, t, us, off] for the ISO
\* forms and [kind, ms] (milliseconds since 2026-02-17T00:00:00Z) for epoch ms.
parse_ts(raw) ==
    IF raw.kind = "epoch_ms"
    THEN [t |-> raw.ms \div 1000, us |-> (raw.ms % 1000) \div 500, off |-> 0]
    ELSE IF raw.kind = "iso_offset"
    THEN [t |-> raw.t, us |-> raw.us, off |-> raw.off]
    ELSE [t |-> raw.t, us |-> raw.us, off |-> 0]       \* "...Z" and naive

\* the instant of an aware datetime, in half seconds
Instant(dt) == (dt.t - dt.off * 60) * 2 + dt.us

\* timedelta(minutes=gap_minutes), in half seconds
Timedelta(minutes) == minutes * 120

\* Strings of timestamps are sequences of tokens: a fixed-width block of
\* digits is one token holding its number, a separator is its code point.
DOT == 46
PLUS == 43
ZED == 90

\* datetime.isoformat(): wall time, ".ffffff" when microsecond is not 0, offset
isoformat(dt) ==
    <<dt.t>> \o (IF dt.us # 0 THEN <<DOT, dt.us>> ELSE <<>>) \o <<PLUS, dt.off>>

\* str.replace("+00:00", "Z")
ReplaceUtcZ(str) ==
    IF Len(str) >= 2 /\ str[Len(str) - 1] = PLUS /\ str[Len(str)] = 0
    THEN SubSeq(str, 1, Len(str) - 2) \o <<ZED>>
    ELSE str

\* str <= str, code point by code point
RECURSIVE StrLeq(_, _)
StrLeq(a, b) ==
    IF a = <<>> THEN TRUE
    ELSE IF b = <<>> THEN FALSE
    ELSE IF Head(a) < Head(b) THEN TRUE
    ELSE IF Head(a) > Head(b) THEN FALSE
    ELSE StrLeq(Tail(a), Tail(b))

\* ------------------------------------------------------------------------
\* Session inference
\* ------------------------------------------------------------------------
Salt == "test-salt"

LogRow(ts, ip, ua, path, host) ==
    [ts |-> ts, ip |-> ip, ua |-> ua, path |-> path, host |-> host]

OrElse(x, dflt) == IF x = "" THEN dflt ELSE x

\* sha256_hex(f"{ip}|{ua}|{salt}")
fingerprint_hash(ip, ua, salt) == sha256_hex(ip \o "|" \o ua \o "|" \o salt)

\* a hex digest cut to its first n characters
Prefix(h, n) == <<"prefix", n, h>>

RowFp(r) == fingerprint_hash(OrElse(r.ip, "noip"), OrElse(r.ua, "noua"), Salt)

\* if site_host: rows = [r for r in rows if r.host == site_host]
FilterHost(rws, host) ==
    IF host # "" THEN SelectSeq(rws, LAMBDA r : r.host = host) ELSE rws

\* keys of `grouped` in insertion order: fingerprints by first appearance
RECURSIVE GroupKeys(_)
GroupKeys(rws) ==
    IF rws = <<>> THEN <<>>
    ELSE LET init == GroupKeys(SubSeq(rws, 1, Len(rws) - 1))
             fp   == RowFp(rws[Len(rws)])
         IN  IF \E i \in 1..Len(init) : init[i] = fp THEN init ELSE Append(init, fp)

GroupItems(rws, fp) == SelectSeq(rws, LAMBDA r : RowFp(r) = fp)

\* list.sort(key=lambda x: x.ts): stable, by instant
RECURSIVE InsertByTs(_, _)
InsertByTs(sorted, r) ==
    IF sorted = <<>> THEN <<r>>
    ELSE IF Instant(r.ts) < Instant(Head(sorted).ts)
         THEN <<r>> \o sorted
         ELSE <<Head(sorted)>> \o InsertByTs(Tail(sorted), r)

RECURSIVE SortByTs(_)
SortByTs(items) ==
    IF items = <<>> THEN <<>>
    ELSE InsertByTs(SortByTs(SubSeq(items, 1, Len(items) - 1)), items[Len(items)])

\* r.ts - current[-1].ts <= gap
WithinGapStrict(last, r, gap) == Instant(r.ts) - Instant(last.ts) < gap
WithinGap(last, r, gap) == Instant(r.ts) - Instant(last.ts) <= gap

\* the loop over one group's items: the chunks handed to flush, in order
RECURSIVE WalkNoFinalFlush(_, _, _)
WalkNoFinalFlush(items, current, gap) ==
    IF items = <<>> THEN <<>>
    ELSE IF current = <<>> THEN WalkNoFinalFlush(Tail(items), <<Head(items)>>, gap)
    ELSE IF WithinGap(current[Len(current)], Head(items), gap)
         THEN WalkNoFinalFlush(Tail(items), Append(current, Head(items)), gap)
         ELSE <<current>> \o WalkNoFinalFlush(Tail(items), <<Head(items)>>, gap)

RECURSIVE Walk(_, _, _)
Walk(items, current, gap) ==
    IF items = <<>>
    THEN IF current = <<>> THEN <<>> ELSE <<current>>      \* flush(current)
    ELSE IF current = <<>> THEN Walk(Tail(items), <<Head(items)>>, gap)
    ELSE IF WithinGap(current[Len(current)], Head(items), gap)
         THEN Walk(Tail(items), Append(current, Head(items)), gap)
         ELSE <<current>> \o Walk(Tail(items), <<Head(items)>>, gap)

\* every chunk flushed by one call, with its fingerprint, in flush order
RECURSIVE ChunksOfGroups(_, _, _)
ChunksOfGroups(keys, rws, gap) ==
    IF keys = <<>> THEN <<>>
    ELSE LET fp == Head(keys)
             cs == Walk(SortByTs(GroupItems(rws, fp)), <<>>, gap)
         IN  [i \in 1..Len(cs) |-> [fp |-> fp, items |-> cs[i]]]
             \o ChunksOfGroups(Tail(keys), rws, gap)

FlushedChunks(rws, host, gap_min) ==
    LET kept == FilterHost(rws, host)
    IN  ChunksOfGroups(GroupKeys(kept), kept, Timedelta(gap_min))

\* ------------------------------------------------------------------------
\* flush: scoring of one chunk
\* ------------------------------------------------------------------------
\* the paths of the request universe by suffix
YamlPaths == {"/gov.yml", "/page.yaml"}          \* p.endswith((".yml", ".yaml"))
JsonldPaths == {"/gov.jsonld"}                   \* p.endswith(".jsonld")

\* is_gov: with no allowlist every path counts
\* an empty allowlist matching no path
is_gov_strict(p, gov) == p \in gov
is_gov(p, gov) == IF gov # {} THEN p \in gov ELSE TRUE

\* classify: path_to_category.get(p, "other")
classify_unknown_as_content(p, p2c) == IF p \in DOMAIN p2c THEN p2c[p] ELSE "content"
classify(p, p2c) == IF p \in DOMAIN p2c THEN p2c[p] ELSE "other"

\* gov_hits = sum(1 for p in paths if is_gov(p))
GovHits(paths, gov) == Cardinality({i \in 1..Len(paths) : is_gov(paths[i], gov)})
Distinct(seq) == {seq[i] : i \in 1..Len(seq)}

yaml_preference(paths) ==
    /\ \E i \in 1..Len(paths) : paths[i] \in YamlPaths
    /\ ~\E i \in 1..Len(paths) : paths[i] \in JsonldPaths

\* the bonus given on three governance hits alone
systematic_check_any_total(total, gov_hits) == gov_hits >= 3
systematic_check(total, gov_hits) == total >= 5 /\ gov_hits >= 3

\* Confidence values are exact fractions over 100 * total: the number c
\* stands for c / (100 * total).
\* confidence = 0.20 + ratio * 0.55, the two bonuses, then the clamp
CapOf(total) == IF total = 1 THEN 55 * total ELSE 95 * total

BonusAfterClamp(total, gov_hits, b1, b2) ==
    Min(CapOf(total), Max(5 * total, 20 * total + 55 * gov_hits))
        + (IF b1 THEN 10 * total ELSE 0) + (IF b2 THEN 10 * total ELSE 0)
Confidence(total, gov_hits, b1, b2) ==
    LET raw == 20 * total + 55 * gov_hits
                 + (IF b1 THEN 10 * total ELSE 0)
                 + (IF b2 THEN 10 * total ELSE 0)
    IN  Min(CapOf(total), Max(5 * total, raw))

Level(total, c) ==
    IF total = 1 THEN "low"
    ELSE IF c >= 75 * total THEN "high"
    ELSE IF c >= 50 * total THEN "medium"
    ELSE "low"

Primary(signals, gov_hits) ==
    IF \E i \in 1..Len(signals) : signals[i] = "yaml_preference_observed"
    THEN "yaml_preference"
    ELSE IF gov_hits >= 2 THEN "governance_sequence"
    ELSE IF gov_hits = 1 THEN "single_governance_hit"
    ELSE "unknown"

\* round(confidence, 2), in hundredths: to nearest.  A sum that lies half
\* way in exact arithmetic is a double next to it; for sessions of up to 20
\* requests round() then gives the even neighbour, except for 0.355, whose
\* double lies below it and goes to 0.35.
Round2Scaled(total, c) == (100 * c) \div total
Round2(total, c) ==
    LET q   == c \div total
        rem == c % total
    IN  IF 2 * rem > total THEN q + 1
        ELSE IF 2 * rem = total THEN (IF q = 35 THEN q ELSE q + (q % 2))
        ELSE q

Signals(paths, gov) ==
    LET total    == Len(paths)
        gov_hits == GovHits(paths, gov)
        revisits == total - Cardinality(Distinct(paths))
    IN  (IF gov_hits >= 1 THEN <<"governance_path_hit">> ELSE <<>>)
        \o (IF gov_hits >= 2 THEN <<"multiple_governance_hits">> ELSE <<>>)
        \o (IF \E i \in 1..total : paths[i] \in YamlPaths
            THEN <<"yaml_accessed">> ELSE <<>>)
        \o (IF \E i \in 1..total : paths[i] \in JsonldPaths
            THEN <<"jsonld_accessed">> ELSE <<>>)
        \o (IF revisits > 0 THEN <<"path_revisited">> ELSE <<>>)
        \o (IF yaml_preference(paths) THEN <<"yaml_preference_observed">> ELSE <<>>)
        \o (IF systematic_check(total, gov_hits)
            THEN <<"systematic_governance_check">> ELSE <<>>)

\* the session record appended for one non-empty chunk
flush(fp, chunk, gov, p2c) ==
    LET paths    == [i \in 1..Len(chunk) |-> chunk[i].path]
        total    == Len(paths)
        gov_hits == GovHits(paths, gov)
        signals  == Signals(paths, gov)
        c        == Confidence(total, gov_hits, yaml_preference(paths),
                               systematic_check(total, gov_hits))
        start    == chunk[1].ts
        end      == chunk[Len(chunk)].ts
    IN  [session_id |->
            Prefix(sha256_hex(<<fp, isoformat(start), isoformat(end)>>), 16),
         window_utc |-> [start |-> ReplaceUtcZ(isoformat(start)),
                         end   |-> ReplaceUtcZ(isoformat(end))],
         client_fingerprint_hash |-> Prefix(fp, 24),
         confidence |-> Round2(total, c),
         path |-> paths,
         path_categories |-> [i \in 1..total |-> classify(paths[i], p2c)],
         signals |-> signals,
         agent_classification |->
            [confidence_level |-> Level(total, c),
             primary_signal |-> Primary(signals, gov_hits),
             human_readable_hypothesis |->
                IF c >= 60 * total /\ total >= 2
                THEN "comportement compatible avec un agent autonome"
                ELSE "hypothese faible"]]

\* sessions.sort(key=lambda s: s["window_utc"]["start"]): stable, by string
RECURSIVE InsertByStart(_, _)
InsertByStart(sorted, x) ==
    IF sorted = <<>> THEN <<x>>
    ELSE IF ~StrLeq(Head(sorted).window_utc.start, x.window_utc.start)
         THEN <<x>> \o sorted
         ELSE <<Head(sorted)>> \o InsertByStart(Tail(sorted), x)

RECURSIVE SortByStart(_)
SortByStart(ss) ==
    IF ss = <<>> THEN <<>>
    ELSE InsertByStart(SortByStart(SubSeq(ss, 1, Len(ss) - 1)), ss[Len(ss)])

infer_sessions(rws, host, gap_min, gov, p2c) ==
    LET cs == FlushedChunks(rws, host, gap_min)
    IN  SortByStart([i \in 1..Len(cs) |-> flush(cs[i].fp, cs[i].items, gov, p2c)])

\* ------------------------------------------------------------------------
\* Specification of infer_sessions
\* ------------------------------------------------------------------------
SiteHost == "example.com"

\* 00:00:00Z, 00:00:00.500000Z, 00:30:00Z, 02:30:00+02:00 (also 00:30Z),
\* epoch ms of 00:30:00.500Z, and the naive 01:15:00
RawTimestamps ==
    { [kind |-> "iso_z",      t |-> 0,    us |-> 0, off |-> 0],
      [kind |-> "iso_z",      t |-> 0,    us |-> 1, off |-> 0],
      [kind |-> "iso_z",      t |-> 1800, us |-> 0, off |-> 0],
      [kind |-> "iso_offset", t |-> 9000, us |-> 0, off |-> 120],
      [kind |-> "epoch_ms",   ms |-> 1800500],
      [kind |-> "iso_naive",  t |-> 4500, us |-> 0, off |-> 0] }

T0 == parse_ts([kind |-> "iso_z", t |-> 0, us |-> 0, off |-> 0])

\* the timestamps at which a second client is seen
RawTimestamps2 ==
    {raw \in RawTimestamps : raw.kind # "epoch_ms" /\ raw.t \in {0, 9000}}

\* requests of one client at every timestamp and of a second one at some,
\* one more path at 00:00:00Z and one request for another host
MixedRows ==
    { LogRow(parse_ts(raw), "1.2.3.4", "ua", "/.well-known/q-ledger.json", SiteHost) :
        raw \in RawTimestamps }
    \cup { LogRow(parse_ts(raw), "5.6.7.8", "ua", "/.well-known/q-ledger.json", SiteHost) :
        raw \in RawTimestamps2 }
    \cup { LogRow(T0, "1.2.3.4", "ua", "/gov.yml", SiteHost),
           LogRow(T0, "1.2.3.4", "ua", "/.well-known/q-ledger.json", "elsewhere.org") }

\* requests of one client in one burst, over every kind of path
BurstPaths == {"/.well-known/q-ledger.json", "/gov.yml", "/gov.jsonld",
               "/page", "/page.yaml"}
BurstRows == { LogRow(T0, "1.2.3.4", "ua", p, SiteHost) : p \in BurstPaths }

GovPaths == {"/.well-known/q-ledger.json", "/gov.yml", "/gov.jsonld"}

CategoryMap == [p \in GovPaths |->
                  IF p = "/.well-known/q-ledger.json" THEN "entrypoint"
                  ELSE IF p = "/gov.yml" THEN "policy" ELSE "ontology"]

\* requests for one path by clients that send no user agent, the user agent
\* "noua", and an ordinary one
ClientRows ==
    { LogRow(T0, "1.2.3.4", "", "/gov.yml", SiteHost),
      LogRow(T0, "1.2.3.4", "noua", "/gov.yml", SiteHost),
      LogRow(T0, "5.6.7.8", "ua", "/gov.yml", SiteHost) }

\* one client's long burst: g requests for allowlisted paths (the first of
\* them a YAML file when yaml is set), then t - g requests for a page
LongBurst(t, g, yaml) ==
    [i \in 1..t |->
       LogRow(T0, "1.2.3.4", "ua",
              IF i > g THEN "/page"
              ELSE IF i = 1 /\ yaml THEN "/gov.yml"
              ELSE "/.well-known/q-ledger.json",
              SiteHost)]

ListsOf(S, n) == UNION {[1..k -> S] : k \in 0..n}

NoRuns ==
    /\ stateFile = Absent
    /\ outJson = Absent
    /\ outYaml = Absent
    /\ latestJson = Absent
    /\ pc = [r \in Runs |-> "idle"]
    /\ state = [r \in Runs |-> <<>>]
    /\ ledger_sequence = [r \in Runs |-> 0]
    /\ previous_hash = [r \in Runs |-> Null]
    /\ ledger = [r \in Runs |-> <<>>]
    /\ ledger_hash = [r \in Runs |-> Null]
    /\ completed = <<>>
    /\ recomputed = [stored |-> Null, digest |-> Null, reordered |-> FALSE]
    /\ overlapped = {}

InitSessions ==
    /\ NoRuns
    /\ NoExt
    /\ \/ /\ rows \in ListsOf(MixedRows, MaxRows)
          /\ gov_exact_paths = GovPaths
          /\ path_to_category = CategoryMap
       \/ /\ rows \in ListsOf(BurstRows, MaxHits)
          /\ gov_exact_paths \in {{}, GovPaths}
          /\ path_to_category = IF gov_exact_paths = {} THEN <<>> ELSE CategoryMap
       \/ /\ rows \in ListsOf(ClientRows, MaxRows)
          /\ gov_exact_paths = GovPaths
          /\ path_to_category = CategoryMap
       \/ /\ \E t \in (MaxHits + 1)..MaxLong : \E g \in 0..t : \E yaml \in BOOLEAN :
                rows = LongBurst(t, g, yaml)
          /\ gov_exact_paths = GovPaths
          /\ path_to_category = CategoryMap
    /\ site_host = SiteHost
    /\ gap_minutes = 30
    /\ sessions = <<>>
    /\ chunks = <<>>
    /\ prev_sessions = <<>>
    /\ phase = "fresh"

\* one call of infer_sessions on the current list
InferSessions ==
    /\ phase \in {"fresh", "reordered"}
    /\ sessions' = infer_sessions(rows, site_host, gap_minutes,
                                  gov_exact_paths, path_to_category)
    /\ chunks' = FlushedChunks(rows, site_host, gap_minutes)
    /\ prev_sessions' = sessions
    /\ phase' = IF phase = "fresh" THEN "called" ELSE "recalled"
    /\ UNCHANGED <<rows, site_host, gap_minutes, gov_exact_paths,
                   path_to_category, chainVars, extVars>>

\* the same requests (a short list) reach a second call with two neighbours
\* exchanged
Reordered(i) ==
    /\ phase = "called"
    /\ Len(rows) <= MaxRows
    /\ i \in 1..(Len(rows) - 1)
    /\ rows[i] # rows[i + 1]
    /\ rows' = Swap(rows, i, i + 1)
    /\ phase' = "reordered"
    /\ UNCHANGED <<site_host, gap_minutes, gov_exact_paths, path_to_category,
                   sessions, chunks, prev_sessions, chainVars, extVars>>

NextSessions ==
    \/ InferSessions
    \/ \E i \in 1..MaxRows : Reordered(i)

SpecSessions == InitSessions /\ [][NextSessions]_vars

\* ------------------------------------------------------------------------
\* normalize_path
\* ------------------------------------------------------------------------
\* A URI is a sequence of tokens: the characters ":", "/", "?", "#", " " and
\* words that hold none of them.  The string it spells is their
\* concatenation.
RECURSIVE Join(_)
Join(u) == IF u = <<>> THEN "" ELSE Head(u) \o Join(Tail(u))

\* str.strip()
RECURSIVE LStrip(_)
LStrip(u) == IF u # <<>> /\ Head(u) = " " THEN LStrip(Tail(u)) ELSE u
Strip(u) == Reverse(LStrip(Reverse(LStrip(u))))

\* str.find(sub): the first index at which sub starts, 0 when there is none
Find(u, sub) ==
    LET at == {i \in 1..(Len(u) - Len(sub) + 1) :
                  SubSeq(u, i, i + Len(sub) - 1) = sub}
    IN  IF at = {} THEN 0 ELSE CHOOSE i \in at : \A j \in at : i <= j

\* u.split(sep, 1)[0] and u.split(sep, 1)[1], for a sep that occurs in u
Before(u, sep) == SubSeq(u, 1, Find(u, sep) - 1)
After(u, sep) == SubSeq(u, Find(u, sep) + Len(sep), Len(u))

\* u.replace("//", "/"): one pass, left to right, without overlap
RECURSIVE ReplaceDoubleSlash(_)
ReplaceDoubleSlash(u) ==
    IF Len(u) < 2 THEN u
    ELSE IF u[1] = "/" /\ u[2] = "/"
         THEN <<"/">> \o ReplaceDoubleSlash(SubSeq(u, 3, Len(u)))
         ELSE <<u[1]>> \o ReplaceDoubleSlash(Tail(u))

\* while "//" in u: u = u.replace("//", "/")
RECURSIVE CollapseSlashes(_)
CollapseSlashes(u) ==
    IF Find(u, <<"/", "/">>) # 0 THEN CollapseSlashes(ReplaceDoubleSlash(u)) ELSE u

normalize_path(uri) ==
    LET u0 == Strip(uri)
        u1 == IF Find(u0, <<":", "/", "/">>) # 0
              THEN LET rest == After(u0, <<":", "/", "/">>)
                   IN  IF Find(rest, <<"/">>) # 0
                       THEN SubSeq(rest, Find(rest, <<"/">>), Len(rest))
                       ELSE <<"/">>
              ELSE u0
        u2 == IF Find(u1, <<"?">>) # 0 THEN Before(u1, <<"?">>) ELSE u1
        u3 == IF Find(u2, <<"#">>) # 0 THEN Before(u2, <<"#">>) ELSE u2
        u4 == IF u3 = <<>> \/ Head(u3) # "/" THEN <<"/">> \o u3 ELSE u3
    IN  IF u0 = <<>> THEN <<>> ELSE CollapseSlashes(u4)

\* ------------------------------------------------------------------------
\* load_rows, load_rows_ndjson
\* ------------------------------------------------------------------------
\* parse_ts raises ValueError on an empty or malformed timestamp
parse_ts_raises(raw) == raw.kind = "malformed"

\* A status is a Python str (CSV column) or int (NDJSON value).
StrStatus(s) == [py |-> "str", s |-> s, n |-> 0]
IntStatus(n) == [py |-> "int", s |-> "", n |-> n]

\* LogRow with its method and status fields
LoadedLogRow(ts, ip, ua, path, host, method, status) ==
    [ts |-> ts, ip |-> ip, ua |-> ua, path |-> path, host |-> host,
     method |-> method, status |-> status]

\* the try block of load_rows for one CSV row: "skip" when it raises,
\* "drop" on the `continue` for an empty path, "keep" when it appends
CsvOutcome(line) ==
    IF parse_ts_raises(line.ts) THEN "skip"
    ELSE IF Join(normalize_path(line.uri)) = "" THEN "drop"
    ELSE "keep"

CsvRow(line) ==
    LoadedLogRow(parse_ts(line.ts), line.ip, line.ua,
                 Join(normalize_path(line.uri)), line.host,
                 line.method, StrStatus(line.status))

\* load_rows: the rows, sorted by timestamp, and stats_out
load_rows(file) ==
    LET kept == SelectSeq(file, LAMBDA l : CsvOutcome(l) = "keep")
        rws  == [i \in 1..Len(kept) |-> CsvRow(kept[i])]
    IN  [rows  |-> SortByTs(rws),
         stats |-> [rows_total   |-> Len(file),
                    rows_loaded  |-> Len(rws),
                    rows_skipped |-> Len(SelectSeq(file, LAMBDA l : CsvOutcome(l) = "skip"))]]

\* the try block of load_rows_ndjson for one non-blank line: json.loads or
\* .items() raises on a line that is no JSON object, parse_ts on the timestamp
NdjsonOutcome(line) ==
    IF line.kind = "garbage" THEN "skip"
    ELSE IF parse_ts_raises(line.ts) THEN "skip"
    ELSE "keep"

\* path = str(obj.get(key_path, "") or ""): taken as it is written
NdjsonRow(line) ==
    LoadedLogRow(parse_ts(line.ts), line.ip, line.ua,
                 Join(line.uri), line.host,
                 line.method, IntStatus(line.status))

\* load_rows_ndjson: the rows in file order, and stats_out
load_rows_ndjson(file) ==
    LET kept == SelectSeq(file, LAMBDA l : NdjsonOutcome(l) = "keep")
        rws  == [i \in 1..Len(kept) |-> NdjsonRow(kept[i])]
    IN  [rows  |-> rws,
         stats |-> [rows_total   |-> Len(file),
                    rows_loaded  |-> Len(rws),
                    rows_skipped |-> Len(SelectSeq(file, LAMBDA l : NdjsonOutcome(l) = "skip"))]]

\* ------------------------------------------------------------------------
\* main(): the method / status / governance filter in front of infer_sessions
\* ------------------------------------------------------------------------
allow_methods == {"GET"}               \* cfg.get("allow_methods", ["GET"])
allow_status == {"200", "304"}         \* cfg.get("allow_status", ["200", "304"])

\* bool(r.status)
StatusTruthy(st) == IF st.py = "str" THEN st.s # "" ELSE st.n # 0

\* r.status in allow_status_norm, a list of str: an int is never in it
StatusAllowed(st) == st.py = "str" /\ st.s \in allow_status

KeepRowAnyPath(r, gov) ==
    /\ ~(r.method # "" /\ r.method \notin allow_methods)
    /\ ~(StatusTruthy(r.status) /\ ~StatusAllowed(r.status))
KeepRow(r, gov) ==
    /\ ~(r.method # "" /\ r.method \notin allow_methods)     \* methods are upper case
    /\ ~(StatusTruthy(r.status) /\ ~StatusAllowed(r.status))
    /\ ~(gov # {} /\ r.path \notin gov)

filtered_rows(rws, gov) == SelectSeq(rws, LAMBDA r : KeepRow(r, gov))

\* ------------------------------------------------------------------------
\* Specification of ingestion: loader, filter, infer_sessions
\* ------------------------------------------------------------------------
UriChars == {":", "/", "?", "#", " ", "a"}

\* https://x.com/.well-known/q-ledger.json?x=1#y
LongUri == <<"https", ":", "/", "/", "x.com", "/", ".well-known", "/",
             "q-ledger.json", "?", "x=1", "#", "y">>

RawT0 == [kind |-> "iso_z", t |-> 0, us |-> 0, off |-> 0]
RawT1 == [kind |-> "iso_z", t |-> 1800, us |-> 0, off |-> 0]
RawBad == [kind |-> "malformed"]

FileLine(ts, uri, method, status) ==
    [kind |-> "row", ts |-> ts, ip |-> "1.2.3.4", ua |-> "ua", uri |-> uri,
     host |-> SiteHost, method |-> method, status |-> status]

\* a line that is not a JSON object
Garbage == [kind |-> "garbage"]

\* rows of a CSV export: status is the text of its column
CsvLines ==
    { FileLine(RawT0, <<"/", "gov.yml">>, "GET", "200"),
      FileLine(RawT1, LongUri, "GET", "304"),
      FileLine(RawBad, <<"/", "gov.yml">>, "GET", "200"),
      FileLine(RawT0, <<>>, "GET", "200"),
      FileLine(RawBad, <<>>, "GET", "200"),
      FileLine(RawT0, <<"/", "gov.yml">>, "POST", "200"),
      FileLine(RawT0, <<"/", "gov.yml">>, "GET", "404"),
      FileLine(RawT0, <<"/", "gov.yml">>, "", "") }

\* lines of an NDJSON file: status is a JSON number, 0 when the key is absent
NdjsonLines ==
    { FileLine(RawT0, <<"/", "gov.yml">>, "GET", 0),
      FileLine(RawT1, LongUri, "GET", 0),
      FileLine(RawBad, <<"/", "gov.yml">>, "GET", 0),
      FileLine(RawT0, <<>>, "GET", 0),
      FileLine(RawBad, <<>>, "GET", 0),
      FileLine(RawT0, <<"/", "gov.yml">>, "POST", 0),
      FileLine(RawT0, <<"/", "gov.yml">>, "GET", 200),
      Garbage }

LinesOf(format) == IF format = "cloudflare_csv" THEN CsvLines ELSE NdjsonLines

\* one request whose path column holds any short URI
UriLine(format, uri) ==
    FileLine(RawT0, uri, "GET", IF format = "cloudflare_csv" THEN "200" ELSE 0)

InitLoad ==
    /\ NoRuns
    /\ DefaultConfig
    /\ NoMetrics
    /\ input_format \in {"cloudflare_csv", "normalized_ndjson"}
    /\ \/ /\ input_file \in ListsOf(LinesOf(input_format), MaxLines)
          /\ gov_exact_paths \in {{}, GovPaths}
       \/ /\ \E uri \in ListsOf(UriChars, MaxUri) :
                input_file = <<UriLine(input_format, uri)>>
          /\ gov_exact_paths = {}
    /\ path_to_category = IF gov_exact_paths = {} THEN <<>> ELSE CategoryMap
    /\ loaded = <<>>
    /\ ingest_stats = NoStats
    /\ rows = <<>>
    /\ site_host = SiteHost
    /\ gap_minutes = 30
    /\ sessions = <<>>
    /\ chunks = <<>>
    /\ prev_sessions = <<>>
    /\ phase = "input"

\* rows = load_rows(input_path, ..., stats_out=ingest_stats)
LoadRows ==
    /\ phase = "input"
    /\ input_format = "cloudflare_csv"
    /\ loaded' = load_rows(input_file).rows
    /\ ingest_stats' = load_rows(input_file).stats
    /\ phase' = "loaded"
    /\ UNCHANGED <<input_format, input_file, rows, site_host, gap_minutes,
                   gov_exact_paths, path_to_category, sessions, chunks,
                   prev_sessions, chainVars, cfgVars, metVars>>

\* rows = load_rows_ndjson(input_path, ..., stats_out=ingest_stats)
LoadRowsNdjson ==
    /\ phase = "input"
    /\ input_format = "normalized_ndjson"
    /\ loaded' = load_rows_ndjson(input_file).rows
    /\ ingest_stats' = load_rows_ndjson(input_file).stats
    /\ phase' = "loaded"
    /\ UNCHANGED <<input_format, input_file, rows, site_host, gap_minutes,
                   gov_exact_paths, path_to_category, sessions, chunks,
                   prev_sessions, chainVars, cfgVars, metVars>>

\* the filter loop of main(); its result is what infer_sessions is called on
FilterRows ==
    /\ phase = "loaded"
    /\ rows' = filtered_rows(loaded, gov_exact_paths)
    /\ phase' = "fresh"
    /\ UNCHANGED <<site_host, gap_minutes, gov_exact_paths, path_to_category,
                   sessions, chunks, prev_sessions, chainVars, extVars>>

NextLoad ==
    \/ LoadRows
    \/ LoadRowsNdjson
    \/ FilterRows
    \/ InferSessions

SpecLoad == InitLoad /\ [][NextLoad]_vars

\* ------------------------------------------------------------------------
\* Governance scope (build_ledger.py)
\* ------------------------------------------------------------------------
\* A JSON value is [t, v, s]: t its type, v its members as <<key, value>>
\* pairs (the elements of an array under the key ""), s the tokens of a string.
JObject(pairs) == [t |-> "object", v |-> pairs, s |-> <<>>]
JArray(elems) ==
    [t |-> "array", v |-> [i \in 1..Len(elems) |-> <<"", elems[i]>>], s |-> <<>>]
JString(tokens) == [t |-> "string", v |-> <<>>, s |-> tokens]
JNull == [t |-> "null", v |-> <<>>, s |-> <<>>]

NoScopeFile == [exists |-> FALSE, parses |-> FALSE, doc |-> JNull]

\* bool(x) of a parsed JSON value
Truthy(j) == j.t # "null" /\ (j.v # <<>> \/ j.s # <<>>)

\* load_json_file: None when the file cannot be opened or parsed
load_json_file(f) == IF f.exists /\ f.parses THEN f.doc ELSE JNull

\* layers = d.get("layers", {}): `d.get` needs a dict, `layers.items()` too
load_scope_layers_raises(f) ==
    LET d == load_json_file(f)
    IN  /\ Truthy(d)
        /\ \/ d.t # "object"
           \/ /\ HasKey(d.v, "layers")
              /\ Get(d.v, "layers", JNull).t # "object"

\* the layers map: the list-valued layers, their paths normalized
load_scope_layers(f) ==
    LET d      == load_json_file(f)
        layers == IF Truthy(d) /\ HasKey(d.v, "layers")
                  THEN Get(d.v, "layers", JNull).v ELSE <<>>
        lists  == SelectSeq(layers, LAMBDA kv : kv[2].t = "array")
    IN  [i \in 1..Len(lists) |->
           <<lists[i][1],
             [k \in 1..Len(lists[i][2].v) |->
                Join(normalize_path(lists[i][2].v[k][2].s))]>>]

\* the add(...) calls of build_category_map, in order
LayerCategories ==
    << <<"entrypoints", "entrypoint">>, <<"policy", "policy">>,
       <<"q_layer", "q_layer">>, <<"canon_identity_boundaries", "canon">>,
       <<"constraints", "constraints">>, <<"routing_discovery", "discovery">>,
       <<"ontology", "ontology">>, <<"ontology_fallback", "ontology">>,
       <<"index", "index">>, <<"observation", "observation">>,
       <<"traceability", "traceability">>, <<"reporting", "reporting">> >>

PathsOfLayer(layers, key) ==
    LET ps == Get(layers, key, <<>>) IN {ps[i] : i \in 1..Len(ps)} \ {""}

\* build_category_map: a later add overwrites an earlier one
build_category_map(layers) ==
    LET known == UNION {PathsOfLayer(layers, LayerCategories[i][1]) :
                           i \in 1..Len(LayerCategories)}
        last(p) == CHOOSE i \in 1..Len(LayerCategories) :
                     /\ p \in PathsOfLayer(layers, LayerCategories[i][1])
                     /\ \A j \in 1..Len(LayerCategories) :
                          p \in PathsOfLayer(layers, LayerCategories[j][1]) => j <= i
    IN  [p \in known |-> LayerCategories[last(p)][2]]

\* gov_paths: cfg["governance_paths"], or else every path of every layer
gov_paths(config, layers) ==
    LET own == Get(config, "governance_paths", <<>>)
    IN  IF own # <<>> THEN {own[i] : i \in 1..Len(own)} \ {""}
        ELSE UNION {{layers[i][2][k] : k \in 1..Len(layers[i][2])} :
                       i \in 1..Len(layers)} \ {""}

\* ------------------------------------------------------------------------
\* main(): configuration, from resolve_config_path on
\* ------------------------------------------------------------------------
\* salt = os.environ.get(salt_env, "").strip(); the variable's value is a
\* sequence of tokens, empty when the variable is unset
salt_unstripped(env) == Join(env)
salt_of(env) == Join(Strip(env))

\* input_path = args.input_path or args.input_csv
\*              or input_cfg.get("csv_path") or input_cfg.get("input_csv")
input_path_of(arguments, config) ==
    IF arguments.input_path # "" THEN arguments.input_path
    ELSE Get(Get(config, "input", <<>>), "csv_path", "")

\* the configuration stage ends in SystemExit or KeyError
ConfigureAborts(config, env, arguments, scope) ==
    \/ load_scope_layers_raises(scope)                \* line 561
    \/ salt_of(env) = ""                               \* lines 574-575
    \/ ~HasKey(config, "input")                        \* cfg["input"]
    \/ input_path_of(arguments, config) = ""           \* lines 581-584

\* resolve_config_path ... infer_sessions (lines 551-645): reads only
Configure(r) ==
    /\ pc[r] = "start"
    /\ \A q \in Runs : q < r => Finished(q)
    /\ IF ConfigureAborts(cfg, environ, args, scope_file)
       THEN /\ Goto(r, "failed")
            /\ UNCHANGED <<gov_exact_paths, path_to_category>>
       ELSE LET layers == load_scope_layers(scope_file)
            IN  /\ path_to_category' =
                      IF layers # <<>> THEN build_category_map(layers) ELSE <<>>
                /\ gov_exact_paths' = gov_paths(cfg, layers)
                /\ Goto(r, "idle")
    /\ UNCHANGED <<stateFile, outJson, outYaml, latestJson,
                   state, ledger_sequence, previous_hash, ledger, ledger_hash,
                   completed, recomputed, overlapped,
                   rows, site_host, gap_minutes, sessions, chunks,
                   prev_sessions, phase, extVars>>

Fail(r) ==
    /\ Goto(r, "failed")
    /\ DropLocals(r)
    /\ UNCHANGED <<stateFile, outJson, outYaml, latestJson,
                   completed, recomputed, overlapped, sessVars, extVars>>

\* load_state, then the ledger literal with cfg["site"] (line 657)
ConfiguredLoadState(r) ==
    /\ pc[r] = "idle"
    /\ IF HasKey(cfg, "site") THEN LoadState(r) ELSE Fail(r)

\* os.makedirs(os.path.dirname(cfg["output"]["json"])), then the same for
\* cfg["output"]["yaml"] (lines 678-679), then open(cfg["output"]["json"], "w")
ConfiguredJsonOpen(r) ==
    /\ pc[r] = "hashed"
    /\ IF /\ HasKey(cfg, "output")
          /\ HasKey(Get(cfg, "output", <<>>), "json")
          /\ HasKey(Get(cfg, "output", <<>>), "yaml")
       THEN JsonOpen(r)
       ELSE Fail(r)

\* ------------------------------------------------------------------------
\* Specification of configured build runs
\* ------------------------------------------------------------------------
InputCfg == << <<"columns", "columns">>, <<"csv_path", "in.csv">> >>
OutputCfg == << <<"json", "out/q-ledger.json">>, <<"yaml", "out/q-ledger.yml">>,
                <<"latest_json", "out/latest.json">> >>
FullConfig == << <<"site", "https://example.com/">>,
                 <<"input", InputCfg>>, <<"output", OutputCfg>> >>

RequiredKeys == {"site", "input", "output"}

Without(d, ks) == SelectSeq(d, LAMBDA kv : kv[1] \notin ks)

\* the configuration with any of the required keys left out, and with an
\* input section that names no file
Configs ==
    {Without(FullConfig, ks) : ks \in SUBSET RequiredKeys}
    \cup {Put(Without(FullConfig, ks), "input", Del(InputCfg, "csv_path")) :
             ks \in SUBSET (RequiredKeys \ {"input"})}

\* Q_LEDGER_SALT: unset, blank, set
Environs == { <<>>, <<" ", " ">>, <<"test-salt">> }

ArgsSet == { [input_path |-> ""], [input_path |-> "in.csv"] }

GoodLayers ==
    JObject(<< <<"entrypoints", JArray(<<JString(<<"/", ".well-known", "/", "q-ledger.json">>)>>)>>,
               <<"policy", JArray(<<JString(<<"/", "gov.yml">>)>>)>>,
               <<"ontology", JArray(<<JString(<<"/", "gov.jsonld">>)>>)>> >>)

\* the scope file: missing, not JSON, and JSON of several shapes
ScopeFiles ==
    { NoScopeFile,
      [exists |-> TRUE, parses |-> FALSE, doc |-> JNull],
      Written(JObject(<< <<"layers", GoodLayers>> >>)),
      Written(JObject(<< <<"window_days", JString(<<"7">>)>> >>)),
      Written(JArray(<<JString(<<"/", "gov.yml">>)>>)),
      Written(JObject(<< <<"layers", JArray(<<JString(<<"/", "gov.yml">>)>>)>> >>)),
      Written(JObject(<< <<"layers", JNull>> >>)) }

InitConfig ==
    /\ stateFile \in {Absent, Written(NewState(2, H0))}
    /\ outJson = Absent
    /\ outYaml = Absent
    /\ latestJson = Absent
    /\ pc = [r \in Runs |-> "start"]
    /\ state = [r \in Runs |-> <<>>]
    /\ ledger_sequence = [r \in Runs |-> 0]
    /\ previous_hash = [r \in Runs |-> Null]
    /\ ledger = [r \in Runs |-> <<>>]
    /\ ledger_hash = [r \in Runs |-> Null]
    /\ completed = <<>>
    /\ recomputed = [stored |-> Null, digest |-> Null, reordered |-> FALSE]
    /\ overlapped = {}
    /\ NoSessions
    /\ NoLoad
    /\ NoMetrics
    /\ cfg \in Configs
    /\ environ \in Environs
    /\ args \in ArgsSet
    /\ scope_file \in ScopeFiles

NextConfig ==
    \/ \E r \in Runs : Configure(r)
    \/ \E r \in Runs : ConfiguredLoadState(r)
    \/ \E r \in Runs : ConfiguredJsonOpen(r)
    \/ \E r \in Runs : JsonDump(r)
    \/ \E r \in Runs : YamlWrite(r)
    \/ \E r \in Runs : LatestWrite(r)
    \/ \E r \in Runs : SaveStateOpen(r)
    \/ \E r \in Runs : SaveStateDump(r)

SpecConfig == InitConfig /\ [][NextConfig]_vars

\* ------------------------------------------------------------------------
\* Metrics engine (src/scripts/metrics.py): legacy aggregates
\* ------------------------------------------------------------------------
\* a Python number num/den, or None.  Quotients of counts below 100 are
\* distinct floats exactly when they are distinct fractions, and none of the
\* thresholds 0.70, 1.5, 2.3 and 0.55 is met exactly by a ratio of fewer
\* than ten sessions except 1.5, which is a binary fraction.
PyNone == [none |-> TRUE, num |-> 0, den |-> 1]

RECURSIVE Gcd(_, _)
Gcd(a, b) == IF b = 0 THEN a ELSE Gcd(b, a % b)

\* n / d for d > 0
TrueDiv(n, d) == [none |-> FALSE, num |-> n \div Gcd(n, d), den |-> d \div Gcd(n, d)]

\* x >= a/b and x <= a/b for a number x
NumGeq(x, a, b) == x.num * b >= a * x.den
NumLeq(x, a, b) == x.num * b <= a * x.den

\* the request paths of the ledgers measured, and the string tests of the
\* legacy analysis on them
MetricPaths == {"/page", "/article/", "/gov.yml", "/gov.jsonld", "/canon.md",
                "/.well-known/q-ledger.json", "/ai-manifest.json"}

\* any(m in path for m in markers): "/.well-known/", "/ai-manifest.json",
\* "/canon.md" are markers
is_governance_path_legacy(path) ==
    path \in {"/.well-known/q-ledger.json", "/ai-manifest.json", "/canon.md"}

\* path.endswith((".json", ".jsonld", ".yaml", ".yml", ".txt", ".md"))
HasDataSuffix(path) ==
    path \in {"/gov.yml", "/gov.jsonld", "/canon.md",
              "/.well-known/q-ledger.json", "/ai-manifest.json"}

\* every path of MetricPaths holds a "/"
is_content_path_legacy(path) ==
    IF is_governance_path_legacy(path) THEN FALSE
    ELSE IF HasDataSuffix(path) THEN FALSE
    ELSE TRUE

\* a.endswith((".yml", ".yaml")), "/.well-known/q-ledger" in b,
\* "q-attest-protocol" in b
EndsYaml(path) == path \in {"/gov.yml"}
HasLedgerMarker(path) == path \in {"/.well-known/q-ledger.json"}
HasProtocolMarker(path) == path \in {}

CountIdx(S) == Cardinality(S)

detect_sequences_legacy(paths) ==
    LET pairs   == 1..(Len(paths) - 1)
        triples == 1..(Len(paths) - 2)
    IN  [ yaml_then_ledger |->
            CountIdx({i \in pairs : EndsYaml(paths[i]) /\ HasLedgerMarker(paths[i + 1])}),
          yaml_then_protocol |->
            CountIdx({i \in pairs : EndsYaml(paths[i]) /\ HasProtocolMarker(paths[i + 1])}),
          ledger_then_protocol |->
            CountIdx({i \in pairs : HasLedgerMarker(paths[i]) /\ HasProtocolMarker(paths[i + 1])}),
          gov_content_gov |->
            CountIdx({i \in triples : /\ is_governance_path_legacy(paths[i])
                                      /\ is_content_path_legacy(paths[i + 1])
                                      /\ is_governance_path_legacy(paths[i + 2])}) ]

MotifsSum(m) ==
    m.yaml_then_ledger + m.yaml_then_protocol + m.ledger_then_protocol + m.gov_content_gov

\* the number of times x occurs in seq
Occurrences(seq, x) == Cardinality({i \in 1..Len(seq) : seq[i] = x})

\* session_revisit_stats: the keys of counts, in insertion order

RECURSIVE CountKeys(_)
CountKeys(paths) ==
    IF paths = <<>> THEN <<>>
    ELSE LET init == CountKeys(SubSeq(paths, 1, Len(paths) - 1))
             last == paths[Len(paths)]
         IN  IF \E i \in 1..Len(init) : init[i] = last THEN init ELSE Append(init, last)

\* for p, c in counts.items(): if c >= 2: all_revisit_counts[p] += c - 1
RECURSIVE AddRevisits(_, _, _)
AddRevisits(all, paths, keys) ==
    IF keys = <<>> THEN all
    ELSE LET p == Head(keys)
             c == Occurrences(paths, p)
         IN  AddRevisits(IF c >= 2 THEN Put(all, p, Get(all, p, 0) + (c - 1)) ELSE all,
                         paths, Tail(keys))

RECURSIVE all_revisit_counts(_)
all_revisit_counts(ss) ==
    IF ss = <<>> THEN <<>>
    ELSE LET n == Len(ss)
         IN  AddRevisits(all_revisit_counts(SubSeq(ss, 1, n - 1)),
                         ss[n].path, CountKeys(ss[n].path))

\* sorted(..., key=lambda x: x[1], reverse=True): stable, larger counts first
InsertByCount(sorted, kv) ==
    LET k == Cardinality({i \in 1..Len(sorted) : sorted[i][2] >= kv[2]})
    IN  SubSeq(sorted, 1, k) \o <<kv>> \o SubSeq(sorted, k + 1, Len(sorted))

RECURSIVE SortByCountDesc(_)
SortByCountDesc(items) ==
    IF items = <<>> THEN <<>>
    ELSE InsertByCount(SortByCountDesc(SubSeq(items, 1, Len(items) - 1)),
                       items[Len(items)])

top_revisits(ss) ==
    LET srt == SortByCountDesc(all_revisit_counts(ss))
    IN  SubSeq(srt, 1, Min(10, Len(srt)))

\* the first "/ai-manifest.json" entry of top_revisits, else 0
top_manifest(top) == Get(top, "/ai-manifest.json", 0)

\* the low-data rule taking in five sessions
sessions_total_low_or_five(sessions_total) == sessions_total <= 5
sessions_total_low(sessions_total) == sessions_total < 5

\* classify_regime_legacy: the regime and the rule that gave it
classify_regime_legacy(sessions_total, single_hit_ratio, mean_hits, motifs_total, top) ==
    IF sessions_total_low(sessions_total)
    THEN [regime |-> "other_low_data", rule |-> "sessions_total < 5"]
    ELSE IF /\ NumGeq(single_hit_ratio, 70, 100)
            /\ motifs_total = 0
            /\ (top_manifest(top) >= 5 \/ NumLeq(mean_hits, 15, 10))
    THEN [regime |-> "validation_ingestion", rule |-> "single_hit_ratio>=0.70"]
    ELSE IF motifs_total >= 1
    THEN [regime |-> "exploration_navigation", rule |-> "motifs_total>=1"]
    ELSE IF NumGeq(mean_hits, 23, 10) /\ NumLeq(single_hit_ratio, 55, 100)
    THEN [regime |-> "exploration_navigation", rule |-> "mean_hits>=2.3"]
    ELSE [regime |-> "mixed", rule |-> "no strong rule matched"]

RECURSIVE SumMotifs(_)
SumMotifs(ss) ==
    IF ss = <<>> THEN 0
    ELSE MotifsSum(detect_sequences_legacy(Head(ss).path)) + SumMotifs(Tail(ss))

RECURSIVE TotalHits(_)
TotalHits(ss) == IF ss = <<>> THEN 0 ELSE Len(Head(ss).path) + TotalHits(Tail(ss))

\* the legacy aggregates of main() and the regime, as written to metrics.json
LegacyMetrics(ss) ==
    LET sessions_total      == Len(ss)
        single_hit_sessions == Cardinality({i \in 1..Len(ss) : Len(ss[i].path) = 1})
        single_hit_ratio    == IF sessions_total # 0
                               THEN TrueDiv(single_hit_sessions, sessions_total)
                               ELSE TrueDiv(0, 1)
        mean_hits           == IF sessions_total # 0
                               THEN TrueDiv(TotalHits(ss), sessions_total)
                               ELSE TrueDiv(0, 1)
        motifs_total        == SumMotifs(ss)
        top                 == top_revisits(ss)
        verdict             == classify_regime_legacy(sessions_total, single_hit_ratio,
                                                      mean_hits, motifs_total, top)
    IN  [ sessions_total |-> sessions_total,
          single_hit_ratio |-> single_hit_ratio,          \* before round(., 4)
          mean_hits_per_session |-> mean_hits,
          distinct_paths_total |->
              Cardinality(UNION {Distinct(ss[i].path) : i \in 1..Len(ss)}),
          regime |-> verdict.regime,
          regime_rationale |-> verdict.rule,
          top_revisits |-> top,
          motifs_total |-> motifs_total ]

\* ------------------------------------------------------------------------
\* Metrics engine: compute_q_metrics
\* ------------------------------------------------------------------------
RECURSIVE compress_consecutive(_)
compress_consecutive(items) ==
    IF items = <<>> THEN <<>>
    ELSE LET out == compress_consecutive(SubSeq(items, 1, Len(items) - 1))
             x   == items[Len(items)]
         IN  IF out = <<>> \/ out[Len(out)] # x THEN Append(out, x) ELSE out

\* load_scope: None when the file is missing or is not JSON
load_scope(f) == IF f.exists /\ f.parses THEN f.doc ELSE JNull

\* the add(...) calls of build_exact_path_to_category, in order
MetricsLayerCategories ==
    << <<"entrypoints", "entrypoint">>, <<"policy", "policy">>,
       <<"q_layer", "q_layer">>, <<"canon_identity_boundaries", "canon">>,
       <<"constraints", "constraints">>, <<"routing_discovery", "discovery">>,
       <<"ontology", "ontology">>, <<"ontology_fallback", "ontology">>,
       <<"index", "index">>, <<"observation", "observation">>,
       <<"traceability", "traceability">>, <<"reporting", "reporting">> >>

\* layers.get(layer_key, []) or [] : the paths as written in the scope file
RawPathsOfLayer(layers, key) ==
    LET a == Get(layers, key, JNull) IN {Join(a.v[k][2].s) : k \in 1..Len(a.v)}

\* build_exact_path_to_category for a dict with a dict of layers: a later
\* add overwrites an earlier one
build_exact_path_to_category(scope) ==
    LET layers == Get(scope.v, "layers", JObject(<<>>)).v
        known  == UNION {RawPathsOfLayer(layers, MetricsLayerCategories[i][1]) :
                            i \in 1..Len(MetricsLayerCategories)}
        last(p) == CHOOSE i \in 1..Len(MetricsLayerCategories) :
                     /\ p \in RawPathsOfLayer(layers, MetricsLayerCategories[i][1])
                     /\ \A j \in 1..Len(MetricsLayerCategories) :
                          p \in RawPathsOfLayer(layers, MetricsLayerCategories[j][1])
                            => j <= i
    IN  [p \in known |-> MetricsLayerCategories[last(p)][2]]

classify_path_with_scope(path, exact_map) ==
    IF path \in DOMAIN exact_map THEN exact_map[path] ELSE "other"

RECURSIVE MatchFrom(_, _, _)
MatchFrom(seq, expected, j) ==
    IF seq = <<>> THEN FALSE
    ELSE IF Head(seq) = expected[j + 1]
         THEN IF j + 1 = Len(expected) THEN TRUE
              ELSE MatchFrom(Tail(seq), expected, j + 1)
         ELSE MatchFrom(Tail(seq), expected, j)

\* expected matched as an ordered subsequence of seq
subsequence_match(seq, expected) ==
    IF expected = <<>> THEN TRUE ELSE MatchFrom(seq, expected, 0)

\* keeps `other`
normalize_categories_keep_other(cats) ==
    compress_consecutive(SelectSeq(cats, LAMBDA c : c # ""))
normalize_categories_for_metrics(cats) ==
    compress_consecutive(SelectSeq(cats, LAMBDA c : c # "" /\ c # "other"))

\* layer_to_cat.get(x, x)
LayerToCat(x) ==
    IF x = "entrypoints" THEN "entrypoint" ELSE x

GovernanceOnlyPattern == <<"entrypoint", "constraints", "ontology">>

\* compute_expected_patterns: the pattern of the first declared sequence
expected_pattern_full(scope) ==
    LET expected_sequences == Get(scope.v, "expected_sequences", JNull).v
        p == IF expected_sequences = <<>> THEN <<>>
             ELSE Get(expected_sequences[1][2].v, "pattern", JNull).v
    IN  [i \in 1..Len(p) |-> LayerToCat(Join(p[i][2].s))]

\* canon left as it is
keep_canon_for_checks(cats) == cats
map_canon_to_constraints_for_checks(cats) ==
    [i \in 1..Len(cats) |-> IF cats[i] = "canon" THEN "constraints" ELSE cats[i]]

GovernedCategories ==
    {"policy", "q_layer", "constraints", "ontology", "index", "reporting",
     "traceability", "observation", "discovery"}

Elems(seq) == {seq[i] : i \in 1..Len(seq)}

\* the cats of one session in both loops: path_categories, or the paths
\* classified with the scope when the ledger has none, then normalized
SessionCats(s, exact_map) ==
    LET cats == IF s.path_categories # <<>> THEN s.path_categories
                ELSE [i \in 1..Len(s.path) |->
                        classify_path_with_scope(s.path[i], exact_map)]
    IN  normalize_categories_for_metrics(cats)

\* the first pass: some session of the ledger has a `content` category
observed_any_content(ss, exact_map) ==
    \E i \in 1..Len(ss) : "content" \in Elems(SessionCats(ss[i], exact_map))

\* the test made for each counted session in the second pass:
\* `if expected_pattern_full and observed_any_content`
use_declared_pattern_per_session(full, observed, cats) ==
    full # <<>> /\ "content" \in Elems(cats)
use_declared_pattern(full, observed, cats) == full # <<>> /\ observed

\* `matching` records the calls of subsequence_match, one for each counted
\* session in ledger order
compute_q_metrics(ss, scope) ==
    LET exact_map == IF Truthy(scope) THEN build_exact_path_to_category(scope)
                     ELSE <<>>
        full      == expected_pattern_full(scope)
        observed  == observed_any_content(ss, exact_map)
        counted   == SelectSeq([i \in 1..Len(ss) |-> SessionCats(ss[i], exact_map)],
                               LAMBDA cats : cats # <<>>)
        checks    == [i \in 1..Len(counted) |->
                        map_canon_to_constraints_for_checks(counted[i])]
        total     == Len(counted)
        pattern_of(i) == IF use_declared_pattern(full, observed, counted[i])
                         THEN full ELSE GovernanceOnlyPattern
        used_pattern == IF total = 0 THEN Null ELSE pattern_of(total)
        entrypoint_first ==
            Cardinality({i \in 1..total : counted[i][1] = "entrypoint"})
        constraints_touched ==
            Cardinality({i \in 1..total : "constraints" \in Elems(checks[i])})
        escaped ==
            Cardinality({i \in 1..total :
                            /\ "entrypoint" \notin Elems(checks[i])
                            /\ Elems(checks[i]) \cap GovernedCategories # {}})
        seq_match ==
            Cardinality({i \in 1..total : subsequence_match(checks[i], pattern_of(i))})
        Rate(n)  == IF total # 0 THEN TrueDiv(n, total) ELSE PyNone
        Count(n) == IF total # 0 THEN TrueDiv(n, 1) ELSE PyNone
    IN  [ expected_pattern_used |-> used_pattern,
          governance_only_mode |->
              \E i \in 1..total : ~use_declared_pattern(full, observed, counted[i]),
          matching |-> [i \in 1..total |-> [seq |-> checks[i], expected |-> pattern_of(i)]],
          counts |-> [ sessions_inferred_total |-> Count(total),
                       sessions_with_entrypoint_first |-> Count(entrypoint_first),
                       sessions_with_constraints_touched |-> Count(constraints_touched),
                       sessions_escaped |-> Count(escaped),
                       sessions_matching_expected_sequence |-> Count(seq_match) ],
          rates |-> [ entry_compliance_rate |-> Rate(entrypoint_first),
                      constraint_touch_rate |-> Rate(constraints_touched),
                      escape_rate |-> Rate(escaped),
                      sequence_fidelity |-> Rate(seq_match) ] ]

\* ------------------------------------------------------------------------
\* Specification of the metrics run: main() of metrics.py on a ledger
\* ------------------------------------------------------------------------
LedgerSession(path, cats) == [path |-> path, path_categories |-> cats]

\* sessions of the ledgers measured: one request outside the scope, a yaml
\* file before the ledger, six reads of the manifest without categories,
\* an entry followed by canon files and the ontology, and a content page
\* before a canon file
LedgerSessions ==
    { LedgerSession(<<"/page">>, <<"other">>),
      LedgerSession(<<"/gov.yml", "/.well-known/q-ledger.json">>,
                    <<"policy", "entrypoint">>),
      LedgerSession([i \in 1..6 |-> "/ai-manifest.json"], <<>>),
      LedgerSession(<<"/.well-known/q-ledger.json", "/canon.md", "/canon.md",
                      "/gov.jsonld">>,
                    <<"entrypoint", "canon", "canon", "ontology">>),
      LedgerSession(<<"/article/", "/canon.md">>, <<"content", "canon">>) }

\* the categories of the one-session ledgers enumerated in full
SessionCategories ==
    {"entrypoint", "canon", "constraints", "ontology", "content", "other"}

MetricsLayers ==
    JObject(<< <<"entrypoints", JArray(<<JString(<<"/", ".well-known", "/", "q-ledger.json">>),
                                         JString(<<"/", "ai-manifest.json">>)>>)>>,
               <<"canon_identity_boundaries", JArray(<<JString(<<"/", "canon.md">>)>>)>>,
               <<"ontology", JArray(<<JString(<<"/", "gov.jsonld">>)>>)>> >>)

DeclaredSequences ==
    JArray(<< JObject(<< <<"pattern", JArray(<<JString(<<"content">>),
                                              JString(<<"constraints">>)>>)>> >>) >>)

\* the scope file of the metrics run: missing, layers only, and layers with
\* a declared expected sequence
MetricScopes ==
    { NoScopeFile,
      Written(JObject(<< <<"layers", MetricsLayers>> >>)),
      Written(JObject(<< <<"layers", MetricsLayers>>,
                         <<"expected_sequences", DeclaredSequences>> >>)) }

InitMetrics ==
    /\ NoRuns
    /\ NoSessions
    /\ NoLoad
    /\ cfg = <<>>
    /\ environ = <<>>
    /\ args = [input_path |-> ""]
    /\ scope_file \in MetricScopes
    /\ \/ ledger_doc \in ListsOf(LedgerSessions, MaxSessions)
       \/ \E cats \in ListsOf(SessionCategories, MaxCats) :
             ledger_doc = <<LedgerSession([i \in 1..Len(cats) |-> "/page"], cats)>>
    /\ metrics_pc = "start"
    /\ metrics_obj = <<>>
    /\ q_metrics = <<>>

\* the legacy aggregates and the regime, up to the write of metrics.json
LegacyReport ==
    /\ metrics_pc = "start"
    /\ metrics_obj' = LegacyMetrics(ledger_doc)
    /\ metrics_pc' = "legacy"
    /\ UNCHANGED <<ledger_doc, q_metrics, chainVars, sessVars, loadVars, cfgVars>>

\* compute_q_metrics(ledger, scope) and the write of q-metrics.json
QMetrics ==
    /\ metrics_pc = "legacy"
    /\ q_metrics' = compute_q_metrics(ledger_doc, load_scope(scope_file))
    /\ metrics_pc' = "done"
    /\ UNCHANGED <<ledger_doc, metrics_obj, chainVars, sessVars, loadVars, cfgVars>>

NextMetrics == LegacyReport \/ QMetrics

SpecMetrics == InitMetrics /\ [][NextMetrics]_vars

\* ------------------------------------------------------------------------
\* Specification of main() from its first statement
\* ------------------------------------------------------------------------
\* the names the import statements of build_ledger.py bind (lines 25-34)
ModuleImports ==
    {"os", "csv", "json", "hashlib", "dataclass", "datetime", "timezone",
     "timedelta", "defaultdict", "Dict", "List", "Any", "Optional", "yaml"}

\* parser = argparse.ArgumentParser(...) and parse_args: the global name is
\* looked up when main() runs, and NameError leaves main() when it is unbound
ParseArgs(r) ==
    /\ pc[r] = "entry"
    /\ \A q \in Runs : q < r => Finished(q)
    /\ IF "argparse" \in ModuleImports
       THEN /\ Goto(r, "start")
            /\ UNCHANGED <<stateFile, outJson, outYaml, latestJson,
                           state, ledger_sequence, previous_hash, ledger,
                           ledger_hash, completed, recomputed, overlapped, sessVars, extVars>>
       ELSE Fail(r)

InitMain ==
    /\ stateFile \in {Absent, Written(NewState(2, H0))}
    /\ outJson = Absent
    /\ outYaml = Absent
    /\ latestJson = Absent
    /\ pc = [r \in Runs |-> "entry"]
    /\ state = [r \in Runs |-> <<>>]
    /\ ledger_sequence = [r \in Runs |-> 0]
    /\ previous_hash = [r \in Runs |-> Null]
    /\ ledger = [r \in Runs |-> <<>>]
    /\ ledger_hash = [r \in Runs |-> Null]
    /\ completed = <<>>
    /\ recomputed = [stored |-> Null, digest |-> Null, reordered |-> FALSE]
    /\ overlapped = {}
    /\ NoSessions
    /\ NoLoad
    /\ NoMetrics
    /\ cfg \in Configs
    /\ environ \in Environs
    /\ args \in ArgsSet
    /\ scope_file \in ScopeFiles

NextMain == \E r \in Runs : ParseArgs(r)

SpecMain == InitMain /\ [][NextMain]_vars

\* ------------------------------------------------------------------------
\* Specification of build runs that overlap
\* ------------------------------------------------------------------------
\* nothing in main() takes a lock: a run may call load_state at any moment,
\* whatever the other runs are doing
NextOverlap ==
    \/ \E r \in Runs : LoadState(r)
    \/ \E r \in Runs : JsonOpen(r)
    \/ \E r \in Runs : JsonDump(r)
    \/ \E r \in Runs : YamlWrite(r)
    \/ \E r \in Runs : LatestWrite(r)
    \/ \E r \in Runs : SaveStateOpen(r)
    \/ \E r \in Runs : SaveStateDump(r)

SpecOverlap == Init /\ [][NextOverlap]_vars

\* ------------------------------------------------------------------------
\* Specification of the pipeline: scope file, build, metrics
\* ------------------------------------------------------------------------
\* entries of a scope layer as written by hand: the two requested paths,
\* and the same paths without the leading slash, with a doubled slash, with
\* a query string and as a full URL
ScopeEntries ==
    { <<"/", "gov.yml">>,
      <<"gov.yml">>,
      <<"/", "/", "gov.yml">>,
      <<"/", "gov.yml", "?", "x=1">>,
      <<"/", ".well-known", "/", "q-ledger.json">>,
      LongUri }

PipelineLayers(entry, onto, content) ==
    JObject(<< <<"entrypoints", JArray([i \in 1..Len(entry) |-> JString(entry[i])])>>,
               <<"ontology", JArray([i \in 1..Len(onto) |-> JString(onto[i])])>>,
               <<"content", JArray([i \in 1..Len(content) |-> JString(content[i])])>> >>)

\* scope files with an entrypoint written in any of the ways above, a path
\* listed in a second layer, a layer named content that the classifiers do
\* not know, and with or without a declared sequence that starts at content
PipelineScopes ==
    { Written(JObject(<< <<"layers", PipelineLayers(entry, onto, content)>> >>
                      \o declared)) :
        entry \in ListsOf(ScopeEntries, 1),
        onto \in {<<>>, << <<"/", "gov.yml">> >>},
        content \in {<<>>, << <<"/", ".well-known", "/", "q-ledger.json">> >>},
        declared \in {<<>>, << <<"expected_sequences", DeclaredSequences>> >>} }

\* requests for the two paths, thirty minutes apart, and a POST
PipelineLines(format) ==
    { FileLine(RawT0, <<"/", "gov.yml">>, "GET",
               IF format = "cloudflare_csv" THEN "200" ELSE 0),
      FileLine(RawT1, <<"/", ".well-known", "/", "q-ledger.json">>, "GET",
               IF format = "cloudflare_csv" THEN "304" ELSE 0),
      FileLine(RawT0, <<"/", "gov.yml">>, "POST",
               IF format = "cloudflare_csv" THEN "200" ELSE 0) }

InitPipeline ==
    /\ stateFile = Absent
    /\ outJson = Absent
    /\ outYaml = Absent
    /\ latestJson = Absent
    /\ pc = [r \in Runs |-> "start"]
    /\ state = [r \in Runs |-> <<>>]
    /\ ledger_sequence = [r \in Runs |-> 0]
    /\ previous_hash = [r \in Runs |-> Null]
    /\ ledger = [r \in Runs |-> <<>>]
    /\ ledger_hash = [r \in Runs |-> Null]
    /\ completed = <<>>
    /\ recomputed = [stored |-> Null, digest |-> Null, reordered |-> FALSE]
    /\ overlapped = {}
    /\ cfg = FullConfig
    /\ environ = <<"test-salt">>
    /\ args = [input_path |-> ""]
    /\ scope_file \in PipelineScopes
    /\ input_format \in {"cloudflare_csv", "normalized_ndjson"}
    /\ input_file \in ListsOf(PipelineLines(input_format), MaxLines)
    /\ loaded = <<>>
    /\ ingest_stats = NoStats
    /\ rows = <<>>
    /\ site_host = SiteHost
    /\ gap_minutes = 30
    /\ gov_exact_paths = {}
    /\ path_to_category = <<>>
    /\ sessions = <<>>
    /\ chunks = <<>>
    /\ prev_sessions = <<>>
    /\ phase = "input"
    /\ NoMetrics

\* the configuration stage of the first run is over
Configured == pc[1] = "idle"

ConfiguredLoadRows == Configured /\ LoadRows

ConfiguredLoadRowsNdjson == Configured /\ LoadRowsNdjson

\* metrics.py reads the ledger the build wrote ("sessions_inferred": sessions)
\* and the same scope file: compute_q_metrics(ledger, scope)
MeasureLedger ==
    /\ phase = "called"
    /\ metrics_pc = "idle"
    /\ ledger_doc' = [i \in 1..Len(sessions) |->
                        LedgerSession(sessions[i].path, sessions[i].path_categories)]
    /\ q_metrics' = compute_q_metrics(ledger_doc', load_scope(scope_file))
    /\ metrics_pc' = "done"
    /\ UNCHANGED <<metrics_obj, chainVars, sessVars, loadVars, cfgVars>>

NextPipeline ==
    \/ Configure(1)
    \/ ConfiguredLoadRows
    \/ ConfiguredLoadRowsNdjson
    \/ FilterRows
    \/ InferSessions
    \/ MeasureLedger

SpecPipeline == InitPipeline /\ [][NextPipeline]_vars

\* ------------------------------------------------------------------------
\* Properties of the build runs
\* ------------------------------------------------------------------------
LastStarted(r) == pc[r] # "idle" /\ \A q \in Runs : q > r => pc[q] = "idle"

\* C1: under serialized execution each completed run's ledger carries the
\* previous completed run's content hash as previous_ledger_hash_sha256 and
\* its ledger_sequence plus one, and once a run has returned the state file
\* holds exactly the sequence and content hash of the ledger it wrote.
C1_ChainInvariant ==
    /\ \A i \in 1..(Len(completed) - 1) :
         /\ completed[i + 1].prev = completed[i].hash
         /\ completed[i + 1].seq = completed[i].seq + 1
    /\ \A r \in Runs :
         (LastStarted(r) /\ pc[r] = "done") =>
            /\ stateFile = Written(NewState(Get(outJson.doc, "ledger_sequence", 0),
                                            ContentHash(outJson.doc)))
            /\ completed[Len(completed)] = Summary(r, outJson.doc)

C1_TwoRunsCompleted ==
    /\ Len(completed) >= 2
    /\ pc[completed[Len(completed)].run] = "done"
    /\ LastStarted(completed[Len(completed)].run)

\* C2: after a crash at any point of save_state the state file is either
\* the complete previous state or the complete new one, so load_state can
\* read it.
C2_StateWriteAtomic ==
    (\A r \in Runs : pc[r] # "state_open") => ~load_state_raises(stateFile)

\* C3: a run that finds no state file does not fail and produces
\* ledger_sequence 1 with a null previous hash; a state file lacking a key is
\* read as if it held that key's default.
C3_FirstRun ==
    [][\A r \in Runs :
         (pc[r] = "idle" /\ pc'[r] # "idle") =>
            /\ ~stateFile.exists =>
                 /\ pc'[r] = "hashed"
                 /\ ledger_sequence'[r] = 1
                 /\ previous_hash'[r] = Null
                 /\ Summary(r, ledger'[r]).seq = 1
                 /\ Summary(r, ledger'[r]).prev = Null
            /\ (stateFile.parses /\ ~HasKey(stateFile.doc, "ledger_sequence")) =>
                 /\ pc'[r] = "hashed"
                 /\ ledger_sequence'[r] = 1
                 /\ previous_hash'[r] = Get(stateFile.doc, "last_ledger_hash", Null)
            /\ (stateFile.parses /\ ~HasKey(stateFile.doc, "last_ledger_hash")) =>
                 /\ pc'[r] = "hashed"
                 /\ previous_hash'[r] = Null
                 /\ ledger_sequence'[r] = Get(stateFile.doc, "ledger_sequence", 0) + 1
      ]_vars

C3_FirstRunCompleted ==
    /\ pc[1] = "done"
    /\ completed = <<Summary(1, outJson.doc)>>
    /\ completed[1].seq = 1
    /\ completed[1].prev = Null
    /\ stateFile = Written(NewState(1, completed[1].hash))

\* C4: the stored content hash of every written ledger is the canonical hash
\* of the document without integrity.content_hash_sha256, it changes with
\* every other field, and a reader gets the same digest in any key order.
PublishedFiles == {outJson, outYaml, latestJson}

C4_ContentHashReproducible ==
    /\ \A f \in PublishedFiles :
         f.parses => ContentHash(f.doc) = canonical_json_hash(WithoutContentHash(f.doc))
    /\ \A f, g \in PublishedFiles :
         (f.parses /\ g.parses /\ ContentHash(f.doc) = ContentHash(g.doc)) => f.doc = g.doc
    /\ recomputed.digest = recomputed.stored

C4_ReaderRecomputedReordered ==
    /\ recomputed.reordered
    /\ recomputed.stored # Null
    /\ Len(completed) >= 2
    /\ recomputed.stored = completed[2].hash

\* ------------------------------------------------------------------------
\* Properties of infer_sessions
\* ------------------------------------------------------------------------
Called == phase # "fresh"

\* the instant a published window string denotes, in half seconds
InstantOfIso(str) ==
    LET frac == Len(str) >= 3 /\ str[2] = DOT
        us   == IF frac THEN str[3] ELSE 0
        rest == IF frac THEN SubSeq(str, 4, Len(str)) ELSE SubSeq(str, 2, Len(str))
        off  == IF rest[1] = PLUS THEN rest[2] ELSE 0
    IN  (str[1] - off * 60) * 2 + us

Kept == FilterHost(rows, site_host)

RECURSIVE SumLen(_)
SumLen(ss) == IF ss = <<>> THEN 0 ELSE Len(Head(ss)) + SumLen(Tail(ss))

\* the emitted sessions are the flushed chunks, one for one, in some order
SessionOfChunk(c) == flush(c.fp, c.items, gov_exact_paths, path_to_category)
ChunkOrders ==
    {p \in Permutations(1..Len(chunks)) :
        \A i \in 1..Len(chunks) : sessions[i] = SessionOfChunk(chunks[p[i]])}

\* C5: inside a session no two consecutive requests are more than the gap
\* apart (a gap equal to the threshold does not split), two consecutive
\* sessions of one fingerprint are more than the gap apart, and two requests
\* of one client 45 minutes apart under a 30 minute gap give two sessions.
C5_GapRule ==
    Called =>
      /\ Len(sessions) = Len(chunks) /\ ChunkOrders # {}
      /\ \A j \in 1..Len(chunks) : \A k \in 1..(Len(chunks[j].items) - 1) :
           Instant(chunks[j].items[k + 1].ts) - Instant(chunks[j].items[k].ts)
              <= Timedelta(gap_minutes)
      /\ \A j \in 1..(Len(chunks) - 1) :
           chunks[j].fp = chunks[j + 1].fp =>
             Instant(chunks[j + 1].items[1].ts)
               - Instant(chunks[j].items[Len(chunks[j].items)].ts)
                  > Timedelta(gap_minutes)
      /\ \A j, k \in 1..Len(chunks) :
           (chunks[j].fp = chunks[k].fp /\ j < k) =>
              \A m \in j..k : chunks[m].fp = chunks[j].fp
      /\ ( /\ Len(Kept) = 2
           /\ RowFp(Kept[1]) = RowFp(Kept[2])
           /\ gap_minutes = 30
           /\ Instant(Kept[2].ts) - Instant(Kept[1].ts) \in {-5400, 5400} )
         => Len(sessions) = 2

\* a request exactly 30 minutes after the one before it stayed in its
\* session, and one 45 minutes after its predecessor opened a new session
C5_EqualGapKeptLongerSplit ==
    /\ Called
    /\ Len(chunks) = 2
    /\ chunks[1].fp = chunks[2].fp
    /\ Len(chunks[1].items) = 2
    /\ Instant(chunks[1].items[2].ts) - Instant(chunks[1].items[1].ts)
          = Timedelta(gap_minutes)
    /\ Instant(chunks[2].items[1].ts) - Instant(chunks[1].items[2].ts) = 5400

\* C6: the sessions partition the host-matching requests: each such request
\* is in exactly one session, no session is empty, the requests of a session
\* share one fingerprint and are in time order, and the window runs from the
\* first to the last of them.
C6_Partition ==
    Called =>
      /\ ChunkOrders # {}
      /\ SumLen([i \in 1..Len(sessions) |-> sessions[i].path]) = Len(Kept)
      /\ \A i \in 1..Len(sessions) : Len(sessions[i].path) >= 1
      /\ \A x \in Distinct(rows) :
           Occurrences(Kept, x)
             = SumLen([j \in 1..Len(chunks) |->
                         SelectSeq(chunks[j].items, LAMBDA y : y = x)])
      /\ \A j \in 1..Len(chunks) : \A k \in 1..Len(chunks[j].items) :
           /\ RowFp(chunks[j].items[k]) = chunks[j].fp
           /\ chunks[j].items[k].host = site_host
           /\ k > 1 => Instant(chunks[j].items[k - 1].ts)
                          <= Instant(chunks[j].items[k].ts)
      /\ \A p \in ChunkOrders : \A i \in 1..Len(sessions) :
           LET items == chunks[p[i]].items IN
           /\ Len(sessions[i].path) = Len(items)
           /\ \A k \in 1..Len(items) :
                /\ sessions[i].path[k] = items[k].path
                /\ InstantOfIso(sessions[i].window_utc.start) <= Instant(items[k].ts)
                /\ Instant(items[k].ts) <= InstantOfIso(sessions[i].window_utc.end)
           /\ InstantOfIso(sessions[i].window_utc.start) = Instant(items[1].ts)
           /\ InstantOfIso(sessions[i].window_utc.end) = Instant(items[Len(items)].ts)

\* three requests, one of them for another host, gave two sessions
C6_FilteredAndSplit ==
    /\ Called
    /\ Len(rows) = 3
    /\ Len(Kept) = 2
    /\ Len(sessions) = 2

\* C7: the returned sessions are in ascending order of their window start
\* instants.
C7_SortedByStartInstant ==
    Called =>
      \A i, j \in 1..Len(sessions) :
        i < j => InstantOfIso(sessions[i].window_utc.start)
                    <= InstantOfIso(sessions[j].window_utc.start)

\* C8: a second call on the same requests in another order returns the
\* identical session list.
C8_OrderIndependent ==
    phase = "recalled" => sessions = prev_sessions

\* C9: a session of exactly one request has confidence_level low and
\* confidence at most 0.55, and carries governance_path_hit when its path is
\* in the allowlist.
HasSignal(sess, sig) == \E i \in 1..Len(sess.signals) : sess.signals[i] = sig

C9_SingleHitCap ==
    Called =>
      \A i \in 1..Len(sessions) :
        Len(sessions[i].path) = 1 =>
          /\ sessions[i].agent_classification.confidence_level = "low"
          /\ sessions[i].confidence <= 55
          /\ sessions[i].path[1] \in gov_exact_paths
                => HasSignal(sessions[i], "governance_path_hit")

\* a lone allowlisted YAML request: 0.20 + 0.55 + 0.10 before the cap
C9_SingleYamlGovHit ==
    /\ Called
    /\ Len(sessions) = 1
    /\ sessions[1].path = <<"/gov.yml">>
    /\ gov_exact_paths = GovPaths
    /\ HasSignal(sessions[1], "yaml_preference_observed")
    /\ HasSignal(sessions[1], "governance_path_hit")
    /\ sessions[1].confidence = 55

\* C10: the stored confidence of every session lies in [0.05, 0.95].
C10_ConfidenceRange ==
    Called =>
      \A i \in 1..Len(sessions) :
        5 <= sessions[i].confidence /\ sessions[i].confidence <= 95

\* both bonuses on top of an all-governance session, and a session with no
\* governance hit at all
C10_BothBonuses ==
    /\ Called
    /\ Len(sessions) = 1
    /\ HasSignal(sessions[1], "yaml_preference_observed")
    /\ HasSignal(sessions[1], "systematic_governance_check")
    /\ sessions[1].confidence = 95

\* ------------------------------------------------------------------------
\* Properties of ingestion
\* ------------------------------------------------------------------------
Loaded == phase \notin {"input"}

\* C11: once a loader has returned, rows_total = rows_loaded + rows_skipped,
\* also for rows with an empty path column and rows with a malformed
\* timestamp.
C11_IngestionCounts ==
    Loaded =>
      /\ ingest_stats.rows_total = Len(input_file)
      /\ ingest_stats.rows_total
            = ingest_stats.rows_loaded + ingest_stats.rows_skipped

\* a URI that is a normalized path: non-empty, leading "/", no "//", no
\* scheme, no query string, no fragment
IsNormalizedUri(u) ==
    /\ u # <<>>
    /\ Head(u) = "/"
    /\ Find(u, <<"/", "/">>) = 0
    /\ Find(u, <<":", "/", "/">>) = 0
    /\ Find(u, <<"?">>) = 0
    /\ Find(u, <<"#">>) = 0

KnownUris == { <<"/", "gov.yml">>, <<"/", ".well-known", "/", "q-ledger.json">> }

NormalizedStrings ==
    {Join(u) : u \in {v \in ListsOf(UriChars, MaxUri + 1) \cup KnownUris :
                        IsNormalizedUri(v)}}

\* C16: every path in every session's path list is a normalized path,
\* whichever loader produced the rows.
C16_SessionPathsNormalized ==
    (Called /\ input_file # <<>>) =>
      \A i \in 1..Len(sessions) : \A k \in 1..Len(sessions[i].path) :
        sessions[i].path[k] \in NormalizedStrings

\* ------------------------------------------------------------------------
\* Properties of configured build runs
\* ------------------------------------------------------------------------
\* the scope file is missing, is not JSON, or is JSON of an unexpected shape
ScopeBroken ==
    \/ ~scope_file.exists
    \/ ~scope_file.parses
    \/ scope_file.doc.t # "object"
    \/ /\ HasKey(scope_file.doc.v, "layers")
       /\ Get(scope_file.doc.v, "layers", JNull).t # "object"

\* the salt variable is unset or blank, no input path is given, or a
\* required key is missing
BadConfig ==
    \/ \A i \in 1..Len(environ) : environ[i] = " "
    \/ input_path_of(args, cfg) = ""
    \/ \E k \in RequiredKeys : ~HasKey(cfg, k)

\* C12: under a configuration error no step of a run writes the ledger
\* JSON, the YAML mirror, the latest copy or the state file, and no run gets
\* past the point where the outputs are opened.
C12_ConfigErrorsFatal ==
    [][BadConfig =>
         /\ UNCHANGED <<stateFile, outJson, outYaml, latestJson>>
         /\ \A r \in Runs : pc'[r] \in {"start", "idle", "hashed", "failed"}
      ]_vars

\* only cfg["output"] is missing: both runs got as far as the ledger
\* literal and aborted there, all files as they were
C12_AbortedBeforeOutputs ==
    /\ Keys(cfg) = RequiredKeys \ {"output"}
    /\ environ = <<"test-salt">>
    /\ input_path_of(args, cfg) # ""
    /\ ~ScopeBroken
    /\ \A r \in Runs : pc[r] = "failed"
    /\ stateFile = Written(NewState(2, H0))
    /\ outJson = Absent /\ outYaml = Absent /\ latestJson = Absent

\* C13: with a broken scope file and a sound configuration a run does not
\* fail, and it goes on with an empty category map (every path `other`) and
\* an empty allowlist (every path governance-relevant).
C13_ScopeErrorsDegrade ==
    \A r \in Runs :
      (ScopeBroken /\ ~BadConfig /\ pc[r] # "start") =>
         /\ pc[r] # "failed"
         /\ path_to_category = <<>>
         /\ gov_exact_paths = {}

\* ------------------------------------------------------------------------
\* Properties of scoring
\* ------------------------------------------------------------------------
\* `sessions` is the result of infer_sessions on the current `rows`
Returned == phase \in {"called", "recalled"}

LevelRank(l) == IF l = "low" THEN 1 ELSE IF l = "medium" THEN 2 ELSE 3

\* The same chunks of requests are scored again under each allowlist.
\* the allowlists a scope configuration could give: is_gov tests the
\* requested paths only, so an allowlist acts as the set of requested
\* paths it names, or as one naming none of them
RequestedPaths == {rows[i].path : i \in 1..Len(rows)}
Allowlists == ((SUBSET RequestedPaths) \ {{}}) \cup {{"/not-requested"}}

\* C14: with no category map and no allowlist every path is `other`, and
\* no session has a higher confidence or confidence_level than the same
\* requests get under any non-empty allowlist.
C14_NoAllowlistWeaker ==
    (Returned /\ gov_exact_paths = {} /\ path_to_category = <<>>) =>
      /\ \A i \in 1..Len(sessions) : \A k \in 1..Len(sessions[i].path) :
           sessions[i].path_categories[k] = "other"
      /\ \A g \in Allowlists :
           LET with == SortByStart([i \in 1..Len(chunks) |->
                                      flush(chunks[i].fp, chunks[i].items, g, <<>>)])
           IN  /\ Len(with) = Len(sessions)
               /\ \A i \in 1..Len(sessions) :
                    /\ sessions[i].path = with[i].path
                    /\ sessions[i].confidence <= with[i].confidence
                    /\ LevelRank(sessions[i].agent_classification.confidence_level)
                         <= LevelRank(with[i].agent_classification.confidence_level)

\* C14, as the code has it: with no category map and no allowlist every
\* path is `other` and every hit counts as a governance hit, so no session
\* has a lower confidence or confidence_level than the same requests get
\* under any non-empty allowlist.
C14_NoAllowlistNotLower ==
    (Returned /\ gov_exact_paths = {} /\ path_to_category = <<>>) =>
      /\ \A i \in 1..Len(sessions) : \A k \in 1..Len(sessions[i].path) :
           sessions[i].path_categories[k] = "other"
      /\ \A g \in Allowlists :
           LET with == SortByStart([i \in 1..Len(chunks) |->
                                      flush(chunks[i].fp, chunks[i].items, g, <<>>)])
           IN  /\ Len(with) = Len(sessions)
               /\ \A i \in 1..Len(sessions) :
                    /\ sessions[i].path = with[i].path
                    /\ sessions[i].confidence >= with[i].confidence
                    /\ LevelRank(sessions[i].agent_classification.confidence_level)
                         >= LevelRank(with[i].agent_classification.confidence_level)

\* two requests outside the allowlist {"/gov.yml"} score high without an
\* allowlist and low with it
C14_HigherWithoutAllowlist ==
    /\ Returned /\ gov_exact_paths = {} /\ path_to_category = <<>>
    /\ Len(sessions) = 1
    /\ Len(sessions[1].path) = 2
    /\ sessions[1].agent_classification.confidence_level = "high"
    /\ LET with == infer_sessions(rows, site_host, gap_minutes, {"/gov.yml"}, <<>>)
       IN  /\ Len(with) = 1
           /\ with[1].agent_classification.confidence_level = "low"
           /\ with[1].confidence < sessions[1].confidence


\* the (ip, ua) pairs of a request list, and its consistent renamings onto
\* other clients
ClientPairs(rws) == {<<rws[i].ip, rws[i].ua>> : i \in 1..Len(rws)}

OtherClients == { <<"9.9.9.1", "x">>, <<"9.9.9.2", "y">>, <<"9.9.9.3", "z">> }

Renamings(rws) ==
    {f \in [ClientPairs(rws) -> OtherClients] :
        \A a, b \in ClientPairs(rws) : f[a] = f[b] => a = b}

Rename(rws, f) ==
    [i \in 1..Len(rws) |->
       [rws[i] EXCEPT !.ip = f[<<rws[i].ip, rws[i].ua>>][1],
                      !.ua = f[<<rws[i].ip, rws[i].ua>>][2]]]

\* a session record without its two hash fields
Scrub(sess) == [sess EXCEPT !.session_id = Null, !.client_fingerprint_hash = Null]

\* C15: a session shows its client only as the 24-character prefix of
\* hash(ip|ua|salt) and, inside session_id, the 16-character prefix of
\* hash(fingerprint|start|end); the same requests under any consistent
\* renaming of the (ip, ua) pairs give the same sessions except for those two
\* fields.
C15_NoRawIdentity ==
    Returned =>
      /\ \A p \in ChunkOrders : \A i \in 1..Len(sessions) :
           LET first == chunks[p[i]].items[1]
               last  == chunks[p[i]].items[Len(chunks[p[i]].items)]
               fp    == sha256_hex(OrElse(first.ip, "noip") \o "|"
                                   \o OrElse(first.ua, "noua") \o "|" \o Salt)
           IN  /\ sessions[i].client_fingerprint_hash = Prefix(fp, 24)
               /\ sessions[i].session_id
                    = Prefix(sha256_hex(<<fp, isoformat(first.ts), isoformat(last.ts)>>), 16)
      /\ \A f \in Renamings(rows) :
           LET other == infer_sessions(Rename(rows, f), site_host, gap_minutes,
                                       gov_exact_paths, path_to_category)
           IN  /\ Len(other) = Len(sessions)
               /\ \A i \in 1..Len(sessions) : Scrub(other[i]) = Scrub(sessions[i])


\* ------------------------------------------------------------------------
\* Properties of the metrics run
\* ------------------------------------------------------------------------
Measured == metrics_pc = "done"

\* the categories of a ledger session as compute_q_metrics reads them
LedgerCats(s, scope) ==
    IF s.path_categories # <<>> THEN s.path_categories
    ELSE LET exact_map == IF Truthy(scope) THEN build_exact_path_to_category(scope)
                          ELSE <<>>
         IN  [i \in 1..Len(s.path) |-> classify_path_with_scope(s.path[i], exact_map)]

\* the sessions with at least one category other than `other`
Qualifying(ss, scope) ==
    SelectSeq(ss, LAMBDA s : \E c \in Elems(LedgerCats(s, scope)) : c # "other")

\* C17: every rate of q-metrics is its count over the number of sessions
\* that have a category other than `other`; the sessions that are `other`
\* throughout change no count and no rate; with no qualifying session every
\* count and every rate is null.
C17_MetricsDenominator ==
    Measured =>
      LET scope == load_scope(scope_file)
          q     == Qualifying(ledger_doc, scope)
          n     == Len(q)
          c     == q_metrics.counts
          r     == q_metrics.rates
      IN  IF n = 0
          THEN /\ \A k \in DOMAIN c : c[k] = PyNone
               /\ \A k \in DOMAIN r : r[k] = PyNone
          ELSE /\ c.sessions_inferred_total = TrueDiv(n, 1)
               /\ \A k \in DOMAIN c : ~c[k].none /\ c[k].den = 1
               /\ r.entry_compliance_rate = TrueDiv(c.sessions_with_entrypoint_first.num, n)
               /\ r.constraint_touch_rate = TrueDiv(c.sessions_with_constraints_touched.num, n)
               /\ r.escape_rate = TrueDiv(c.sessions_escaped.num, n)
               /\ r.sequence_fidelity = TrueDiv(c.sessions_matching_expected_sequence.num, n)
               /\ c = compute_q_metrics(q, scope).counts
               /\ r = compute_q_metrics(q, scope).rates

\* a ledger of three sessions, one of them `other` throughout, measured
\* over two: one of the two starts at the entry point
C17_OtherSessionLeftOut ==
    /\ Measured
    /\ Len(ledger_doc) = 3
    /\ Len(Qualifying(ledger_doc, load_scope(scope_file))) = 2
    /\ q_metrics.counts.sessions_inferred_total = TrueDiv(2, 1)
    /\ q_metrics.rates.entry_compliance_rate = TrueDiv(1, 2)

\* C18: a ledger of fewer than five sessions has regime other_low_data
\* whatever its single-hit ratio, mean hits, motifs and revisits; one of five
\* or more has validation_ingestion, exploration_navigation or mixed.
C18_RegimeLowData ==
    metrics_pc # "start" =>
      IF Len(ledger_doc) < 5
      THEN metrics_obj.regime = "other_low_data"
      ELSE metrics_obj.regime \in
             {"validation_ingestion", "exploration_navigation", "mixed"}

\* four sessions with a motif and manifest revisits are still low data
C18_LowDataDespiteSignals ==
    /\ metrics_pc # "start"
    /\ Len(ledger_doc) = 4
    /\ metrics_obj.motifs_total >= 1
    /\ top_manifest(metrics_obj.top_revisits) >= 5
    /\ metrics_obj.regime = "other_low_data"


\* ------------------------------------------------------------------------
\* Properties of the score
\* ------------------------------------------------------------------------
\* t, g, b1 and b2 of a session record, read off its published path list
HitsOf(sess) == Len(sess.path)
GovHitsOf(sess) ==
    IF gov_exact_paths = {} THEN Len(sess.path)
    ELSE Cardinality({k \in 1..Len(sess.path) : sess.path[k] \in gov_exact_paths})
YamlBonusOf(sess) ==
    /\ \E k \in 1..Len(sess.path) : sess.path[k] \in YamlPaths
    /\ \A k \in 1..Len(sess.path) : sess.path[k] \notin JsonldPaths
SystematicBonusOf(sess) == HitsOf(sess) >= 5 /\ GovHitsOf(sess) >= 3

\* min(cap, max(0.05, 0.20 + 0.55 g/t + b1 + b2)) as a fraction over 100 t
FormulaOf(sess) ==
    LET t   == HitsOf(sess)
        sum == 20 * t + 55 * GovHitsOf(sess)
                 + (IF YamlBonusOf(sess) THEN 10 * t ELSE 0)
                 + (IF SystematicBonusOf(sess) THEN 10 * t ELSE 0)
        cap == IF t = 1 THEN 55 * t ELSE 95 * t
    IN  IF sum < 5 * t THEN 5 * t ELSE IF sum > cap THEN cap ELSE sum

\* C19: the confidence of every session is
\* min(cap, max(0.05, 0.20 + 0.55 g/t + b1 + b2)), the bonuses added before
\* the clamp: the published confidence is that value rounded to two
\* decimals, and the level and the hypothesis are the thresholds 0.75, 0.50
\* and 0.60 applied to it.
C19_ConfidenceFormula ==
    Called =>
      \A i \in 1..Len(sessions) :
        LET sess == sessions[i]
            t    == HitsOf(sess)
            c    == FormulaOf(sess)
        IN  /\ t >= 1
            /\ sess.confidence = Round2(t, c)
            /\ sess.agent_classification.confidence_level =
                 (IF t = 1 THEN "low" ELSE IF c >= 75 * t THEN "high"
                  ELSE IF c >= 50 * t THEN "medium" ELSE "low")
            /\ (sess.agent_classification.human_readable_hypothesis
                  = "comportement compatible avec un agent autonome")
                 <=> (c >= 60 * t /\ t >= 2)

\* five hits, three of them governance hits, a yaml file and no jsonld:
\* 0.20 + 0.33 + 0.10 + 0.10, below the cap
C19_BothBonusesBelowCap ==
    /\ Called
    /\ Len(sessions) = 1
    /\ HitsOf(sessions[1]) = 5
    /\ GovHitsOf(sessions[1]) = 3
    /\ YamlBonusOf(sessions[1])
    /\ sessions[1].confidence = 73
    /\ sessions[1].agent_classification.confidence_level = "medium"

\* C20: for a session of two or more hits the confidence_level is the level
\* of the published, rounded confidence: high from 0.75, medium from 0.50,
\* low below.
C20_LevelMatchesPublished ==
    Called =>
      \A i \in 1..Len(sessions) :
        Len(sessions[i].path) >= 2 =>
          sessions[i].agent_classification.confidence_level =
            (IF sessions[i].confidence >= 75 THEN "high"
             ELSE IF sessions[i].confidence >= 50 THEN "medium" ELSE "low")


\* a session is counted when some category of it is not `other`; it is
\* escaped when it is counted, has no entrypoint, and has a governed
\* category, canon standing for constraints
CountedSession(s, scope) ==
    \E c \in Elems(LedgerCats(s, scope)) : c # "other"
EscapedSession(s, scope) ==
    /\ CountedSession(s, scope)
    /\ "entrypoint" \notin Elems(LedgerCats(s, scope))
    /\ Elems(LedgerCats(s, scope)) \cap (GovernedCategories \cup {"canon"}) # {}
EntrypointFirstSession(s, scope) ==
    LET cats == SelectSeq(LedgerCats(s, scope), LAMBDA c : c # "other")
    IN  cats # <<>> /\ cats[1] = "entrypoint"

\* the number a count publishes, 0 for null
Published(count) == IF count.none THEN 0 ELSE count.num

\* C21: sessions_escaped counts the counted sessions without an entrypoint
\* that touch a governed category (canon as constraints); no session is
\* both entrypoint-first and escaped, and sessions_with_entrypoint_first +
\* sessions_escaped <= sessions_inferred_total.
C21_EscapeClassification ==
    Measured =>
      LET scope == load_scope(scope_file)
          c     == q_metrics.counts
          esc   == {i \in 1..Len(ledger_doc) : EscapedSession(ledger_doc[i], scope)}
          first == {i \in 1..Len(ledger_doc) :
                      EntrypointFirstSession(ledger_doc[i], scope)}
      IN  /\ Published(c.sessions_escaped) = Cardinality(esc)
          /\ Published(c.sessions_with_entrypoint_first) = Cardinality(first)
          /\ esc \cap first = {}
          /\ Published(c.sessions_with_entrypoint_first) + Published(c.sessions_escaped)
               <= Published(c.sessions_inferred_total)

\* three counted sessions: one entrypoint-first, one escaped through a canon
\* file, one neither
C21_OneFirstOneEscaped ==
    /\ Measured
    /\ Len(ledger_doc) = 3
    /\ \E i \in 1..3 : /\ "canon" \in Elems(ledger_doc[i].path_categories)
                       /\ EscapedSession(ledger_doc[i], load_scope(scope_file))
    /\ Published(q_metrics.counts.sessions_inferred_total) = 3
    /\ Published(q_metrics.counts.sessions_with_entrypoint_first) = 1
    /\ Published(q_metrics.counts.sessions_escaped) = 1


\* the pattern of a ledger: the declared one when the scope declares a
\* non-empty pattern and some session of the ledger has a `content`
\* category, else the governance-only one
ContentAnywhere(ss, scope) ==
    \E i \in 1..Len(ss) : "content" \in Elems(LedgerCats(ss[i], scope))
LedgerPattern(ss, scope) ==
    IF expected_pattern_full(scope) # <<>> /\ ContentAnywhere(ss, scope)
    THEN expected_pattern_full(scope) ELSE GovernanceOnlyPattern

\* C22: every counted session of a ledger is matched against the same
\* pattern, the declared one iff the scope declares a non-empty pattern and
\* some session of the ledger has a `content` category, else [entrypoint,
\* constraints, ontology]; expected_pattern_used is that pattern (null for
\* a ledger without a counted session, where nothing is matched).
C22_PatternChosenOnce ==
    Measured =>
      LET scope  == load_scope(scope_file)
          chosen == LedgerPattern(ledger_doc, scope)
          m      == q_metrics.matching
      IN  /\ \A i \in 1..Len(m) : m[i].expected = chosen
          /\ \A i, j \in 1..Len(m) : m[i].expected = m[j].expected
          /\ Len(m) = Published(q_metrics.counts.sessions_inferred_total)
          /\ q_metrics.expected_pattern_used = IF Len(m) = 0 THEN Null ELSE chosen

\* a scope declaring [content, constraints], a session with content and a
\* later session without: both are matched against the declared pattern
C22_DeclaredForSessionWithoutContent ==
    /\ Measured
    /\ Len(q_metrics.matching) = 2
    /\ "content" \in Elems(q_metrics.matching[1].seq)
    /\ "content" \notin Elems(q_metrics.matching[2].seq)
    /\ q_metrics.matching[2].expected = <<"content", "constraints">>
    /\ q_metrics.expected_pattern_used = <<"content", "constraints">>


\* C23: no sequence handed to subsequence_match has two equal adjacent
\* categories, whatever the categories of the session, canon next to
\* constraints included.
C23_NoAdjacentRepeats ==
    Measured =>
      \A i \in 1..Len(q_metrics.matching) :
        LET seq == q_metrics.matching[i].seq
        IN  \A k \in 1..(Len(seq) - 1) : seq[k] # seq[k + 1]


\* ------------------------------------------------------------------------
\* Properties of a whole run of main()
\* ------------------------------------------------------------------------
\* C24: a run with site, input and output configured, the salt set and an
\* input path given does not end in an error (it goes on to read, score,
\* hash and write), and the state file is written only once the ledger
\* JSON is there.
C24_PipelineCompletes ==
    /\ \A r \in Runs : (~BadConfig /\ ~ScopeBroken) => pc[r] # "failed"
    /\ stateFile \notin {Absent, Written(NewState(2, H0))} => outJson.exists


\* C25: whenever no run is in flight, also after a run was killed between
\* writing the ledger JSON and the end of save_state, the state file holds
\* the ledger_sequence and content hash of the ledger document written
\* last (so the next run cannot reuse that sequence number).
C25_StateMatchesLastLedger ==
    ((\A r \in Runs : pc[r] = "idle" \/ Finished(r)) /\ outJson.parses) =>
        stateFile = Written(NewState(Get(outJson.doc, "ledger_sequence", 0),
                                     ContentHash(outJson.doc)))


\* C26: under any interleaving of the runs, two ledgers completed one after
\* the other have different ledger_sequence values and the later one's
\* previous hash is the earlier one's content hash.
C26_ChainNeverForks ==
    \A i \in 1..(Len(completed) - 1) :
        /\ completed[i + 1].seq # completed[i].seq
        /\ completed[i + 1].prev = completed[i].hash

\* C26 (amended): a run that was never in flight together with another run
\* continues the chain from the ledger completed before it: sequence plus
\* one, previous hash equal to that ledger's content hash.
C26_SerialRunsChain ==
    \A i \in 1..(Len(completed) - 1) :
        completed[i + 1].run \notin overlapped =>
            /\ completed[i + 1].seq = completed[i].seq + 1
            /\ completed[i + 1].prev = completed[i].hash

C26_SecondRunAfterFirstReturned ==
    /\ Len(completed) >= 2
    /\ completed[Len(completed)].run \notin overlapped


\* C27: in a build run the rows reach infer_sessions through the filter of
\* main(), so in every session all hits are governance hits: the session
\* carries governance_path_hit, its primary_signal is not unknown, and
\* with two or more hits its confidence is at least 0.75 and its
\* confidence_level is high.
C27_FilteredSessionsAllGovernance ==
    Returned =>
      \A i \in 1..Len(sessions) :
        LET sess == sessions[i]
        IN  /\ GovHitsOf(sess) = HitsOf(sess)
            /\ HasSignal(sess, "governance_path_hit")
            /\ sess.agent_classification.primary_signal # "unknown"
            /\ HitsOf(sess) >= 2 =>
                 /\ sess.confidence >= 75
                 /\ sess.agent_classification.confidence_level = "high"

\* an allowlist is configured and the rows the filter kept form a session
\* of two hits
C27_TwoHitSessionAfterFilter ==
    /\ Returned
    /\ gov_exact_paths # {}
    /\ Len(rows) = Len(loaded)
    /\ \E i \in 1..Len(sessions) : HitsOf(sessions[i]) >= 2


\* C28: under the default allow lists a GET request answered 200 or 304
\* passes the filter of main() whichever loader produced the row: the CSV
\* loader, which holds the status as text, or the NDJSON loader, which
\* holds it as an integer.
StatusCode(st) ==
    IF st.py = "int" THEN st.n
    ELSE IF st.s = "200" THEN 200 ELSE IF st.s = "304" THEN 304 ELSE 0

C28_StatusFilterBothFormats ==
    phase \in {"fresh", "called"} =>
      \A i \in 1..Len(loaded) :
        (/\ loaded[i].method = "GET"
         /\ StatusCode(loaded[i].status) \in {200, 304}
         /\ gov_exact_paths # {} => loaded[i].path \in gov_exact_paths)
          => \E j \in 1..Len(rows) : rows[j] = loaded[i]


\* ------------------------------------------------------------------------
\* Properties of the pipeline
\* ------------------------------------------------------------------------
AssignedCategories ==
    {"entrypoint", "policy", "q_layer", "canon", "constraints", "discovery",
     "ontology", "index", "observation", "traceability", "reporting", "other"}

\* the map the metrics run falls back on for a session without categories
FallbackMap ==
    IF Truthy(load_scope(scope_file))
    THEN build_exact_path_to_category(load_scope(scope_file)) ELSE <<>>

\* C29: the build classifier and the fallback classifier of the metrics run
\* give every path of every session one of the twelve categories above,
\* never content; so on a ledger the build produced the metrics run matches
\* every counted session against [entrypoint, constraints, ontology], also
\* when the scope file declares another pattern.
C29_ContentNeverAssigned ==
    /\ Returned =>
         \A i \in 1..Len(sessions) : \A k \in 1..Len(sessions[i].path) :
            /\ sessions[i].path_categories[k] \in AssignedCategories
            /\ classify_path_with_scope(sessions[i].path[k], FallbackMap)
                  \in AssignedCategories
    /\ metrics_pc = "done" =>
         /\ \A i \in 1..Len(q_metrics.matching) :
               q_metrics.matching[i].expected = GovernanceOnlyPattern
         /\ q_metrics.expected_pattern_used \in {Null, GovernanceOnlyPattern}

\* the scope declares a pattern that starts at content and lists a requested
\* path under a layer named content; the session that holds it is counted
C29_DeclaredPatternNotUsed ==
    /\ metrics_pc = "done"
    /\ expected_pattern_full(load_scope(scope_file)) # <<>>
    /\ \E i \in 1..Len(sessions) :
          "/.well-known/q-ledger.json" \in Elems(sessions[i].path)
    /\ "/.well-known/q-ledger.json" \notin DOMAIN path_to_category
    /\ Len(q_metrics.matching) >= 1
    /\ q_metrics.governance_only_mode

\* C30: for every path of every session the category the build assigned
\* (load_scope_layers, build_category_map, classify) is the one the
\* fallback of the metrics run assigns to it from the same scope file
\* (build_exact_path_to_category, classify_path_with_scope).
C30_ClassifiersAgree ==
    Returned =>
      \A i \in 1..Len(sessions) : \A k \in 1..Len(sessions[i].path) :
         sessions[i].path_categories[k]
            = classify_path_with_scope(sessions[i].path[k], FallbackMap)

====
